---------------------------- MODULE Spec2Model ----------------------------
(***************************************************************************)
(* Model of the multi-round tool-calling orchestration of                  *)
(* backend/ai_generator.py (AIGenerator.generate_response and the methods  *)
(* it calls) and of the tools of backend/search_tools.py.                  *)
(*                                                                         *)
(* Spec        one call of generate_response; the LLM provider and         *)
(*             tool_manager.execute_tool are the environment: every LLM    *)
(*             call either raises or returns a response, every tool call   *)
(*             either raises or returns a text.                            *)
(* SpecSearch  CourseSearchTool.execute called again and again on one      *)
(*             tool; the store is the environment.                         *)
(* SpecTools   a ToolManager and the callers whose queries execute tools,  *)
(*             read the sources and clear them; get_last_sources and       *)
(*             reset_sources hold no lock and are taken one iteration of   *)
(*             their loops at a time.                                      *)
(* SpecManager one call of generate_response with a ToolManager as its     *)
(*             tool_manager.                                               *)
(* LiveSpec    Spec with weak fairness: a step that can be taken is taken. *)
(* SpecStore   CourseSearchTool.execute over VectorStore.search as its     *)
(*             specification describes it.                                 *)
(* SpecOutline CourseOutlineTool.execute over a catalog filled by          *)
(*             add_course_metadata.                                        *)
(* SpecRegistry ToolManager.register_tool called again and again.          *)
(* SpecErrors  SpecManager with a store that fails: the tools return error *)
(*             texts, or raise.                                            *)
(*                                                                         *)
(* Python strings are modelled as sequences of atoms: an f-string is the   *)
(* concatenation (\o) of its parts, "" is << >>, and "s contains t" is     *)
(* "t is a contiguous subsequence of s".                                   *)
(***************************************************************************)
EXTENDS Integers, Sequences, FiniteSets, TLC

VARIABLES
    pc,                     \* position inside generate_response
    query,                  \* argument query
    conversation_history,   \* argument conversation_history (Optional[str])
    tools,                  \* argument tools (Optional[List])
    tool_manager,           \* argument tool_manager: TRUE iff one is supplied
    messages,               \* RoundContext.messages
    current_round,          \* RoundContext.current_round
    errors,                 \* RoundContext.errors
    response,               \* the response of the current round's LLM call
    block_idx,              \* position of the for loop over response.content
    result,                 \* the ToolExecutionResult of the current round
    calls,                  \* every client.messages.create request, in order
    tool_log,               \* every tool_manager.execute_tool call, in order
    llm_log,                \* what each client.messages.create call did
    round_responses,        \* the responses of the round calls, in order
    outcome,                \* how generate_response ended
    last_sources,           \* last_sources of every tool that has the attribute
    tcall,                  \* the latest call made on a tool or the manager
    manager_tools,          \* ToolManager.tools of every manager
    writer,                 \* per tool: the caller whose search assigned last_sources
    callers,                \* the callers that run queries against a manager
    serialized,             \* TRUE iff the callers run their queries one at a time
    store_call,             \* the latest VectorStore.search call
    course_catalog,         \* the catalog collection: title -> metadata
    outline_call            \* the latest CourseOutlineTool.execute call

\* The state of the tools and of their callers
store_state == <<store_call, course_catalog, outline_call>>

tool_layer == <<last_sources, tcall, manager_tools, writer, callers,
                serialized, store_state>>

vars == <<pc, query, conversation_history, tools, tool_manager, messages,
          current_round, errors, response, block_idx, result, calls,
          tool_log, llm_log, round_responses, outcome, tool_layer>>

---------------------------------------------------------------------------
(* Bounds of the model *)

\* Largest number of content blocks in one LLM response
MaxBlocks == 2

\* Largest number of documents in one search result
MaxDocs == 2

\* Largest number of execute_tool calls of one caller's query
MaxExecutions == 2

\* Largest number of lessons of a course
MaxLessons == 2

---------------------------------------------------------------------------
(* Python values *)

None == [isNone |-> TRUE]
Some(v) == [isNone |-> FALSE, v |-> v]

\* Python truthiness of an Optional[str] / Optional[list]: None, "" and []
\* are falsy
Truthy(opt) == ~opt.isNone /\ opt.v # <<>>

\* Python truthiness of an Optional[int]: None and 0 are falsy
TruthyInt(opt) == ~opt.isNone /\ opt.v # 0

\* str(n) of an integer inside an f-string
Str(n) == <<ToString(n)>>

\* str(x) of an Optional[int] inside an f-string
StrOpt(opt) == IF opt.isNone THEN <<"None">> ELSE Str(opt.v)

\* sep.join(parts)
RECURSIVE Join(_, _)
Join(parts, sep) ==
    IF Len(parts) = 0 THEN << >>
    ELSE IF Len(parts) = 1 THEN parts[1]
    ELSE parts[1] \o sep \o Join(Tail(parts), sep)

\* t is a contiguous part of s
Contains(s, t) ==
    \E i \in 0..(Len(s) - Len(t)) :
        \A j \in 1..Len(t) : s[i + j] = t[j]

\* s is a prefix of t
IsPrefix(s, t) ==
    /\ Len(s) <= Len(t)
    /\ \A i \in 1..Len(s) : s[i] = t[i]

---------------------------------------------------------------------------
(* The arguments of generate_response *)

Queries == { <<>>, <<"What is RAG?">> }

Histories == { None, Some(<<>>), Some(<<"User: hi\nAssistant: hello">>) }

\* The names the LLM chooses among in a tool_use block
ToolNames == { "search_course_content", "get_course_outline" }

\* tool_manager.get_tool_definitions(), each definition shown by its name
ToolDefs == << "search_course_content", "get_course_outline" >>

ToolsArgs == { None, Some(<<>>), Some(ToolDefs) }

---------------------------------------------------------------------------
(* How generate_response ends *)

NoOutcome == [kind |-> "none", value |-> <<>>]
Returned(s) == [kind |-> "returned", value |-> s]
Raised(e) == [kind |-> "raised", value |-> <<e>>]

\* response.content[0].text
ContentText(content) ==
    IF Len(content) = 0 THEN Raised("IndexError")
    ELSE IF content[1].type # "text" THEN Raised("AttributeError")
    ELSE Returned(content[1].text)

---------------------------------------------------------------------------
(* The environment: LLM responses and tool outcomes *)

\* The text the k-th LLM call answers with (each call has a text of its own)
LLMText(k) == <<"answer of call ">> \o Str(k)

\* The unique id of the i-th block of the k-th call's response
ToolUseId(k, i) == <<"toolu_", ToString(k), "_", ToString(i)>>

BlockShapes == {"text"} \cup ToolNames

MkBlock(k, i, shape) ==
    IF shape = "text"
    THEN [type |-> "text", text |-> LLMText(k)]
    ELSE [type |-> "tool_use", name |-> shape, id |-> ToolUseId(k, i)]

\* Every response content of at most MaxBlocks blocks for the k-th call
Contents(k) ==
    UNION { { [i \in 1..n |-> MkBlock(k, i, shapes[i])] :
                shapes \in [1..n -> BlockShapes] } : n \in 0..MaxBlocks }

StopReasons == { "tool_use", "end_turn" }

Responses(k) ==
    { [stop_reason |-> s, content |-> c] : s \in StopReasons, c \in Contents(k) }

\* str(e) of the exceptions client.messages.create raises
LLMErrors == { "API connection error" }

\* What client.messages.create does on the k-th call
LLMOutcomes(k) ==
    { [raised |-> TRUE, error |-> e] : e \in LLMErrors }
    \cup { [raised |-> FALSE, response |-> r] : r \in Responses(k) }

\* The texts a tool returns, and str(e) of the exceptions it raises
ToolTexts == { <<"Tool result content">> }

ToolErrors == { "Database connection failed" }

ToolOutcomes ==
    { [raised |-> TRUE, error |-> e] : e \in ToolErrors }
    \cup { [raised |-> FALSE, text |-> t] : t \in ToolTexts }

NoResponse == [stop_reason |-> "none", content |-> <<>>]

\* What the caller of client.messages.create reads of outcome o when it only
\* takes response.content[0].text: whether the call raised, the stop reason,
\* and the result of reading the text
LogEntry(o) ==
    IF o.raised
    THEN [raised |-> TRUE, stop_reason |-> "none", text |-> Raised(o.error)]
    ELSE [raised |-> FALSE, stop_reason |-> o.response.stop_reason,
          text |-> ContentText(o.response.content)]

\* What the k-th client.messages.create call can do, as read by a caller
\* that only takes response.content[0].text
LLMReads(k) == { LogEntry(o) : o \in LLMOutcomes(k) }

\* The record of one execute_tool call made for block in round r
ToolCall(r, block, o) ==
    [round |-> r, name |-> block.name, id |-> block.id, raised |-> o.raised,
     value |-> IF o.raised THEN <<o.error>> ELSE o.text]

---------------------------------------------------------------------------
(* Constants of the program *)

SYSTEM_PROMPT == <<"SYSTEM_PROMPT">>

RoundErrorText ==
    <<"I encountered an error while processing your request. Please try rephrasing your question.">>

ApologyPrefix == <<"I encountered an error while processing your request: ">>

\* self.base_params without the model name
base_params == [temperature |-> 0, max_tokens |-> 800]

\* A max_rounds one too large
max_rounds_plus_one == 2 + 1

\* max_rounds, as generate_response passes it
max_rounds == 2

\* _extract_final_response
_extract_final_response(resp) == ContentText(resp.content)

\* The counter goes up by two on every entry
NextRoundSkipping(round) == round + 2

\* context.current_round += 1
NextRound(round) == round + 1

\* The first termination test of _process_rounds_recursive
MaxRoundsReached(round) == round > max_rounds

\* The stop-reason test inverted
IsToolUseInverted(resp) == resp.stop_reason # "tool_use"

\* The test made on the content blocks instead of the stop reason
IsToolUseByContent(resp) ==
    \E i \in 1..Len(resp.content) : resp.content[i].type = "tool_use"

\* The second termination test of _process_rounds_recursive, negated: the
\* response asks for tools
IsToolUse(resp) == resp.stop_reason = "tool_use"

---------------------------------------------------------------------------
(* Requests *)

\* The system text every call starts from: the static prompt, followed by
\* the previous conversation when conversation_history is truthy
SystemBase(history) ==
    IF Truthy(history)
    THEN SYSTEM_PROMPT \o <<"\n\nPrevious conversation:\n">> \o history.v
    ELSE SYSTEM_PROMPT

UserQueryMessage(q) == [role |-> "user", content |-> [text |-> q]]

\* The simple request advertising the tools
SimpleRequestWithTools(q, history) ==
    [kind |-> "simple", params |-> base_params,
     messages |-> <<UserQueryMessage(q)>>,
     system |-> SystemBase(history),
     tools |-> tools, tool_choice |-> Some(<<"auto">>)]

\* api_params of _generate_simple_response
SimpleRequest(q, history) ==
    [kind |-> "simple", params |-> base_params,
     messages |-> <<UserQueryMessage(q)>>,
     system |-> SystemBase(history),
     tools |-> None, tool_choice |-> None]

\* api_params of _execute_round
RoundRequest(msgs, history, tls, round) ==
    [kind |-> "round", params |-> base_params,
     messages |-> msgs,
     system |-> SystemBase(history) \o
                (IF round > 1
                 THEN <<"\n\nThis is round ">> \o Str(round) \o
                      <<" of up to 2 rounds. Consider if additional tool calls would improve your answer based on previous results.">>
                 ELSE << >>),
     tools |-> tls, tool_choice |-> Some(<<"auto">>)]

\* The finalize request still advertising the tools
final_params_with_tools(msgs, history) ==
    [kind |-> "finalize", params |-> base_params,
     messages |-> msgs,
     system |-> SystemBase(history) \o
                <<"\n\nProvide your final answer based on the tool results above.">>,
     tools |-> tools, tool_choice |-> Some(<<"auto">>)]

\* final_params of _handle_max_rounds_reached
final_params(msgs, history) ==
    [kind |-> "finalize", params |-> base_params,
     messages |-> msgs,
     system |-> SystemBase(history) \o
                <<"\n\nProvide your final answer based on the tool results above.">>,
     tools |-> None, tool_choice |-> None]

\* The fallback request built from the static prompt alone
fallback_params_without_history(msgs, history, round, error_message) ==
    [kind |-> "fallback", params |-> base_params,
     messages |-> msgs,
     system |-> SYSTEM_PROMPT \o
                <<"\n\nNote: ", "Tool execution failed in round ">> \o Str(round) \o
                <<": ">> \o error_message \o
                <<". Please provide the best answer you can based on available information.">>,
     tools |-> None, tool_choice |-> None]

\* fallback_params of _handle_tool_execution_failure
fallback_params(msgs, history, round, error_message) ==
    [kind |-> "fallback", params |-> base_params,
     messages |-> msgs,
     system |-> SystemBase(history) \o
                <<"\n\nNote: ", "Tool execution failed in round ">> \o Str(round) \o
                <<": ">> \o error_message \o
                <<". Please provide the best answer you can based on available information.">>,
     tools |-> None, tool_choice |-> None]

---------------------------------------------------------------------------
(* RoundContext and ToolExecutionResult *)

\* RoundContext.__post_init__
InitialMessages(q) == <<UserQueryMessage(q)>>

\* ToolExecutionResult()
ToolExecutionResult ==
    [failed |-> FALSE, error_message |-> None,
     tool_results |-> << >>, executed_tools |-> << >>]

\* The tool-result entry put in front of the list and without its block's id
ResultPrepended(res, block, text) ==
    [res EXCEPT
       !.tool_results = <<[type |-> "tool_result",
                           tool_use_id |-> <<>>,
                           content |-> text]>> \o @,
       !.executed_tools = Append(@, block.name)]

\* The try branch of _execute_tools_for_round: the call returned text
ResultAfterReturn(res, block, text) ==
    [res EXCEPT
       !.tool_results = Append(@, [type |-> "tool_result",
                                   tool_use_id |-> block.id,
                                   content |-> text]),
       !.executed_tools = Append(@, block.name)]

\* The except branch also leaves a tool-result entry for the raising call
ResultAfterRaiseWithEntry(res, e) ==
    [res EXCEPT !.failed = TRUE,
                !.error_message = Some(<<"Tool execution failed: ", e>>),
                !.tool_results = Append(@, [type |-> "tool_result",
                                            tool_use_id |-> << >>,
                                            content |-> <<e>>])]

\* The except branch of _execute_tools_for_round: the call raised e
ResultAfterRaise(res, e) ==
    [res EXCEPT !.failed = TRUE,
                !.error_message = Some(<<"Tool execution failed: ", e>>)]

\* The except branch leaving context.errors alone
ToolErrorNotLogged(errs, round, error_message) == errs

\* The entry the except branch appends to context.errors
ToolErrorLog(errs, round, error_message) ==
    Append(errs, <<"Round ">> \o Str(round) \o <<": ">> \o error_message)

\* The loop going on to the next block after a raise
LoopContinuesAfterRaise(i, n) == i + 1

\* Where the for loop over response.content stands after the call at
\* position i of n raised: break leaves the loop
LoopAfterRaise(i, n) == n + 1

\* The transcript keeps the query and the latest round only
UpdateContextKeepingLastRound(msgs, resp, res) ==
    LET withAssistant ==
            << msgs[1], [role |-> "assistant",
                         content |-> [list |-> resp.content]] >>
    IN  IF res.tool_results # << >>
        THEN Append(withAssistant,
                    [role |-> "user", content |-> [list |-> res.tool_results]])
        ELSE withAssistant

\* _update_context_with_tool_results
_update_context_with_tool_results(msgs, resp, res) ==
    LET withAssistant ==
            Append(msgs, [role |-> "assistant",
                          content |-> [list |-> resp.content]])
    IN  IF res.tool_results # << >>
        THEN Append(withAssistant,
                    [role |-> "user", content |-> [list |-> res.tool_results]])
        ELSE withAssistant

\* The transcript updated before the failure test
TranscriptUpdatedOnFailure(msgs, resp, res) ==
    _update_context_with_tool_results(msgs, resp, res)

\* The transcript a failed round leaves behind: _process_rounds_recursive
\* returns before _update_context_with_tool_results
TranscriptOnFailure(msgs, resp, res) == msgs

\* The round error not logged
RoundErrorNotLogged(errs, round, e) == errs

\* _handle_round_error: the entry appended to context.errors
_handle_round_error(errs, round, e) ==
    Append(errs, <<"Error in round ">> \o Str(round) \o <<": ", e>>)

\* The apology without the tool error
ApologyWithoutError(error_message) ==
    <<"I encountered an error while processing your request.">>

\* _handle_tool_execution_failure: the text returned when the fallback call,
\* or reading its response, raises
Apology(error_message) == ApologyPrefix \o error_message

---------------------------------------------------------------------------
(* backend/search_tools.py: the store as CourseSearchTool sees it *)

\* The metadata of the chunks in the store: meta.get("course_title") and
\* meta.get("lesson_number")
Metas ==
    { [course_title |-> <<"Course A">>, lesson_number |-> None],
      [course_title |-> <<"Course A">>, lesson_number |-> Some(0)],
      [course_title |-> <<"Course A">>, lesson_number |-> Some(1)],
      [course_title |-> <<"Course B">>, lesson_number |-> Some(1)] }

\* The text of the i-th document of a search result
Doc(i) == <<"chunk ">> \o Str(i)

\* SearchResults(documents, metadata, distances, error)
SearchResults(documents, metadata, distances, error) ==
    [documents |-> documents, metadata |-> metadata,
     distances |-> distances, error |-> error]

\* The distance of the i-th nearest match: the matches come by ascending
\* distance
Distance(i) == i

\* SearchResults.is_empty
is_empty(results) == Len(results.documents) = 0

\* str of the failures the store reports in SearchResults.error
SearchErrors == { <<"Search error: connection lost">> }

\* What store.search returns: an error, no document, or up to MaxDocs
\* documents with their metadata
StoreResults ==
    { SearchResults(<< >>, << >>, << >>, Some(e)) : e \in SearchErrors }
    \cup { SearchResults(<< >>, << >>, << >>, None) }
    \cup UNION { { SearchResults([i \in 1..n |-> Doc(i)], metas,
                                 [i \in 1..n |-> Distance(i)], None) :
                     metas \in [1..n -> Metas] } : n \in 1..MaxDocs }

\* store.get_lesson_link(course_title, lesson_number): the link of the
\* lesson in the catalog, None when the catalog has no such lesson
get_lesson_link(course_title, lesson_number) ==
    IF course_title = <<"Course A">>
    THEN Some(<<"https://example.com/">> \o course_title \o <<"/">>
              \o Str(lesson_number))
    ELSE None

\* The titles of the courses in the catalog
CatalogTitles == { <<"Course A">>, <<"Course B">> }

\* What _resolve_course_name(name) returns: the title of the nearest
\* catalog record, None when the catalog returns no match
Resolutions == { None } \cup { Some(t) : t \in CatalogTitles }

\* Whether the store found no course for the name it was given
Unresolved(course_name, resolution) ==
    Truthy(course_name) /\ resolution.isNone

\* SearchResults.empty(error_msg)
SearchResults_empty(error_msg) ==
    SearchResults(<< >>, << >>, << >>, Some(error_msg))

\* The result built from a raw answer without its distances
FromChromaWithoutDistances(chroma_results) ==
    SearchResults(chroma_results.documents[1], chroma_results.metadatas[1],
                  << >>, None)

\* SearchResults.from_chroma(chroma_results): the first (only) list of
\* each of the three keys
from_chroma(chroma_results) ==
    SearchResults(chroma_results.documents[1], chroma_results.metadatas[1],
                  chroma_results.distances[1], None)

\* The filter keeps the course and drops the lesson when both are given
BuildFilterCourseFirst(course_title, lesson_number) ==
    IF Truthy(course_title) THEN Some([course_title |-> course_title.v])
    ELSE IF ~lesson_number.isNone
    THEN Some([lesson_number |-> lesson_number.v])
    ELSE None

\* _build_filter(course_title, lesson_number): the where clause of the
\* content query
_build_filter(course_title, lesson_number) ==
    IF ~Truthy(course_title) /\ lesson_number.isNone THEN None
    ELSE IF Truthy(course_title) /\ ~lesson_number.isNone
    THEN Some([and |-> << [course_title |-> course_title.v],
                          [lesson_number |-> lesson_number.v] >>])
    ELSE IF Truthy(course_title)
    THEN Some([course_title |-> course_title.v])
    ELSE Some([lesson_number |-> lesson_number.v])

\* What the content collection answers to a query: up to MaxDocs matches
\* as three parallel lists, each inside a list of one element
ChromaResults ==
    UNION { { [documents |-> << [i \in 1..n |-> Doc(i)] >>,
               metadatas |-> << metas >>,
               distances |-> << [i \in 1..n |-> Distance(i)] >>] :
                 metas \in [1..n -> { m \in Metas :
                                        m.lesson_number = Some(1) }] } :
            n \in 0..MaxDocs }

\* str(e) of the exceptions raised while the filter is built or the
\* content collection is queried
StoreErrors == { <<"connection lost">> }

\* What building the filter and querying the content collection meet: an
\* exception in one of the two steps, or the answer of the collection
StoreOutcomes ==
    { [raised |-> TRUE, step |-> s, error |-> e] :
        s \in { "filter", "query" }, e \in StoreErrors }
    \cup { [raised |-> FALSE, chroma_results |-> c] : c \in ChromaResults }

\* The content collection is queried even when no course was found
SearchWithoutShortCircuit(course_name, lesson_number, resolution, met) ==
    LET course_title == IF Truthy(course_name) THEN resolution ELSE None
        filter_dict == _build_filter(course_title, lesson_number)
    IN  IF met.raised /\ met.step = "filter"
        THEN [results |-> SearchResults_empty(<<"Search error: ">>
                                              \o met.error),
              filter |-> None, queries |-> 0]
        ELSE IF met.raised
        THEN [results |-> SearchResults_empty(<<"Search error: ">>
                                              \o met.error),
              filter |-> filter_dict, queries |-> 1]
        ELSE IF Unresolved(course_name, resolution)
        THEN [results |-> SearchResults_empty(
                              <<"No course found matching '">>
                              \o course_name.v \o <<"'">>),
              filter |-> filter_dict, queries |-> 1]
        ELSE [results |-> from_chroma(met.chroma_results),
              filter |-> filter_dict, queries |-> 1]

\* VectorStore.search(query, course_name, lesson_number), resolution being
\* what _resolve_course_name returns and met what the later steps meet:
\* the SearchResults returned, the filter built and the number of queries
\* made against the content collection
search(course_name, lesson_number, resolution, met) ==
    LET course_title == IF Truthy(course_name) THEN resolution ELSE None
        filter_dict == _build_filter(course_title, lesson_number)
    IN  IF Unresolved(course_name, resolution)
        THEN [results |-> SearchResults_empty(
                              <<"No course found matching '">>
                              \o course_name.v \o <<"'">>),
              filter |-> None, queries |-> 0]
        ELSE IF met.raised /\ met.step = "filter"
        THEN [results |-> SearchResults_empty(<<"Search error: ">>
                                              \o met.error),
              filter |-> None, queries |-> 0]
        ELSE IF met.raised
        THEN [results |-> SearchResults_empty(<<"Search error: ">>
                                              \o met.error),
              filter |-> filter_dict, queries |-> 1]
        ELSE [results |-> from_chroma(met.chroma_results),
              filter |-> filter_dict, queries |-> 1]

\* No VectorStore.search call has been made yet
NoStoreCall ==
    [op |-> "none", course_name |-> None, lesson_number |-> None,
     resolution |-> None, met |-> [raised |-> FALSE],
     results |-> SearchResults(<< >>, << >>, << >>, None),
     filter |-> None, queries |-> 0]

\* The record of one VectorStore.search call
StoreCall(course_name, lesson_number, resolution, met, done) ==
    [op |-> "search", course_name |-> course_name,
     lesson_number |-> lesson_number, resolution |-> resolution,
     met |-> met, results |-> done.results, filter |-> done.filter,
     queries |-> done.queries]

---------------------------------------------------------------------------
(* The catalog collection and json, as CourseOutlineTool uses them *)

\* The characters of a JSON text are kept in tokens: brackets, braces,
\* separators, keys with their colon, numbers, null, and a string as a
\* quote, its characters and a quote
KeyNumber == "\"lesson_number\": "
KeyTitle == "\"lesson_title\": "
KeyLink == "\"lesson_link\": "

\* The largest lesson number of a course
MaxLessonNumber == 2

\* The lessons courses are made of: Lesson(lesson_number, title,
\* lesson_link)
Lessons ==
    { [lesson_number |-> 0, title |-> <<"Welcome">>, lesson_link |-> None],
      [lesson_number |-> 1, title |-> <<"What is RAG?">>,
       lesson_link |-> Some(<<"https://example.com/rag-course/lesson1">>)],
      [lesson_number |-> 2, title |-> <<"Vector Embeddings">>,
       lesson_link |-> Some(<<"https://example.com/rag-course/lesson2">>)] }

\* The lesson lists of a course: up to MaxLessons lessons with numbers of
\* their own, in any order
LessonLists ==
    UNION { { ls \in [1..n -> Lessons] :
                \A i, j \in 1..n : i # j => ls[i] # ls[j] } :
            n \in 0..MaxLessons }

\* The courses: Course(title, course_link, instructor, lessons)
Courses ==
    { [title |-> t, course_link |-> <<"https://example.com/">> \o t,
       instructor |-> <<"Dr. AI Expert">>, lessons |-> ls] :
        t \in CatalogTitles, ls \in LessonLists }

\* json.dumps of one lesson as add_course_metadata serializes it
DumpLesson(lesson) ==
    <<"{", KeyNumber, ToString(lesson.lesson_number), ", ", KeyTitle, "\"">>
    \o lesson.title \o <<"\"", ", ", KeyLink>>
    \o (IF lesson.lesson_link.isNone THEN <<"null">>
        ELSE <<"\"">> \o lesson.lesson_link.v \o <<"\"">>)
    \o <<"}">>

\* json.dumps(lessons)
json_dumps(lessons) ==
    <<"[">> \o Join([i \in 1..Len(lessons) |-> DumpLesson(lessons[i])],
                    <<", ">>)
    \o <<"]">>

\* s[i], or a token no JSON text has when s ends before i
At(s, i) == IF i \in 1..Len(s) THEN s[i] ELSE "<end>"

\* The integer a number token stands for
IsNumber(tok) == \E n \in 0..MaxLessonNumber : ToString(n) = tok

ParseNumber(tok) == CHOOSE n \in 0..MaxLessonNumber : ToString(n) = tok

\* str(e) of the json.JSONDecodeError of a text that starts with no value
JSONDecodeError == <<"Expecting value: line 1 column 1 (char 0)">>

\* A dict of a parsed lesson: the value of each key, None for a key the
\* object does not have
NoKeys == [lesson_number |-> None, lesson_title |-> None,
           lesson_link |-> None]

\* The members of a JSON object from token i on: the dict, and the token
\* after the closing brace
RECURSIVE ParseMembers(_, _, _, _)
ParseMembers(s, i, obj, first) ==
    IF At(s, i) = "}" THEN [ok |-> TRUE, next |-> i + 1, obj |-> obj]
    ELSE IF ~first /\ At(s, i) # ", " THEN [ok |-> FALSE]
    ELSE LET k == IF first THEN i ELSE i + 1
         IN  IF At(s, k) = KeyNumber /\ IsNumber(At(s, k + 1))
             THEN ParseMembers(s, k + 2,
                      [obj EXCEPT !.lesson_number =
                                      Some(ParseNumber(s[k + 1]))], FALSE)
             ELSE IF /\ At(s, k) = KeyTitle /\ At(s, k + 1) = "\""
                     /\ At(s, k + 3) = "\""
             THEN ParseMembers(s, k + 4,
                      [obj EXCEPT !.lesson_title = Some(<<s[k + 2]>>)],
                      FALSE)
             ELSE IF At(s, k) = KeyLink /\ At(s, k + 1) = "null"
             THEN ParseMembers(s, k + 2, obj, FALSE)
             ELSE IF /\ At(s, k) = KeyLink /\ At(s, k + 1) = "\""
                     /\ At(s, k + 3) = "\""
             THEN ParseMembers(s, k + 4,
                      [obj EXCEPT !.lesson_link = Some(<<s[k + 2]>>)],
                      FALSE)
             ELSE [ok |-> FALSE]

\* The objects of a JSON array from token i on
RECURSIVE ParseArray(_, _, _, _)
ParseArray(s, i, acc, first) ==
    IF At(s, i) = "]"
    THEN IF i = Len(s) THEN [ok |-> TRUE, value |-> acc] ELSE [ok |-> FALSE]
    ELSE IF ~first /\ At(s, i) # ", " THEN [ok |-> FALSE]
    ELSE LET k == IF first THEN i ELSE i + 1
         IN  IF At(s, k) # "{" THEN [ok |-> FALSE]
             ELSE LET m == ParseMembers(s, k + 1, NoKeys, TRUE)
                  IN  IF ~m.ok THEN [ok |-> FALSE]
                      ELSE ParseArray(s, m.next, Append(acc, m.obj), FALSE)

\* json.loads(text) of the text of a lesson array: the list of dicts, or
\* the JSONDecodeError raised
json_loads(s) ==
    LET parsed == IF At(s, 1) = "[" THEN ParseArray(s, 2, << >>, TRUE)
                  ELSE [ok |-> FALSE]
    IN  IF parsed.ok THEN [raised |-> FALSE, value |-> parsed.value]
        ELSE [raised |-> TRUE, error |-> JSONDecodeError]

\* The metadata of a catalog record; a key the record lacks is None
Metadata(title, instructor, course_link, lesson_count, lessons_json) ==
    [title |-> title, instructor |-> instructor, course_link |-> course_link,
     lesson_count |-> lesson_count, lessons_json |-> lessons_json]

\* The metadata add_course_metadata(course) stores under the course's title
CourseMetadata(course) ==
    Metadata(course.title, Some(course.instructor), Some(course.course_link),
             Some(Len(course.lessons)), Some(json_dumps(course.lessons)))

\* Records that add_course_metadata did not write: one with neither a link
\* nor lessons, one whose lessons are dicts without keys, one whose
\* lessons_json is no JSON text
ForeignMetadata(title) ==
    { Metadata(title, None, None, None, None),
      Metadata(title, None, None, None, Some(<<"[", "{", "}", "]">>)),
      Metadata(title, None, None, None, Some(<<"not json">>)) }

\* The catalog holds no record
EmptyCatalog == [t \in CatalogTitles |-> None]

---------------------------------------------------------------------------
(* backend/search_tools.py: CourseOutlineTool.execute *)

\* str(e) of the exceptions the store raises to the outline tool
CatalogErrors == { <<"catalog unavailable">> }

\* What self.store._resolve_course_name(course_title) does
ResolveOutcomes ==
    { [raised |-> TRUE, error |-> e] : e \in CatalogErrors }
    \cup { [raised |-> FALSE, title |-> r] : r \in Resolutions }

\* f"  {lesson_num}. {lesson_title}" of a lesson that shows its title only
LessonLineTitleOnly(lesson) ==
    <<"  ">>
    \o (IF lesson.lesson_title.isNone THEN <<"Unknown Title">>
        ELSE lesson.lesson_title.v)

\* f"  {lesson_num}. {lesson_title}" with the defaults of lesson.get
LessonLine(lesson) ==
    <<"  ">>
    \o (IF lesson.lesson_number.isNone THEN <<"Unknown">>
        ELSE Str(lesson.lesson_number.v))
    \o <<". ">>
    \o (IF lesson.lesson_title.isNone THEN <<"Unknown Title">>
        ELSE lesson.lesson_title.v)

\* formatted_outline joined with newlines
FormatOutline(resolved_title, course_link, lessons) ==
    Join(<< <<"**Course:** ">> \o resolved_title,
            <<"**Course Link:** ">> \o course_link,
            <<"**Lessons:**">> >>
         \o (IF Len(lessons) > 0
             THEN [i \in 1..Len(lessons) |-> LessonLine(lessons[i])]
             ELSE << <<"  No lessons found">> >>),
         <<"\n">>)

\* What follows the fetch of the catalog record, inside the try
OutlineOfRecord(resolved_title, got) ==
    IF got.raised
    THEN <<"Error retrieving course outline: ">> \o got.error
    ELSE IF ~Truthy(got.results) \/ Len(got.results.v.metadatas) = 0
    THEN <<"Course metadata not found for '">> \o resolved_title \o <<"'">>
    ELSE LET metadata == got.results.v.metadatas[1]
             course_link == IF metadata.course_link.isNone
                            THEN <<"No link available">>
                            ELSE metadata.course_link.v
             lessons_json == IF metadata.lessons_json.isNone
                             THEN <<"[", "]">>
                             ELSE metadata.lessons_json.v
             lessons == json_loads(lessons_json)
         IN  IF lessons.raised
             THEN <<"Error retrieving course outline: ">> \o lessons.error
             ELSE FormatOutline(resolved_title, course_link, lessons.value)

\* The catalog record is fetched before the resolution is looked at
ExecuteOutlineFetchingFirst(course_title, resolution, got) ==
    IF resolution.raised
    THEN [raised |-> TRUE, text |-> resolution.error, fetches |-> 0]
    ELSE IF ~Truthy(resolution.title)
    THEN [raised |-> FALSE,
          text |-> <<"No course found matching '">> \o course_title
                   \o <<"'">>,
          fetches |-> 1]
    ELSE [raised |-> FALSE,
          text |-> OutlineOfRecord(resolution.title.v, got),
          fetches |-> 1]

\* CourseOutlineTool.execute(course_title), resolution being what
\* _resolve_course_name does and got what course_catalog.get does: whether
\* the call raised, the text returned or str(e), and the number of
\* course_catalog.get calls made
execute_outline(course_title, resolution, got) ==
    IF resolution.raised
    THEN [raised |-> TRUE, text |-> resolution.error, fetches |-> 0]
    ELSE IF ~Truthy(resolution.title)
    THEN [raised |-> FALSE,
          text |-> <<"No course found matching '">> \o course_title
                   \o <<"'">>,
          fetches |-> 0]
    ELSE [raised |-> FALSE,
          text |-> OutlineOfRecord(resolution.title.v, got),
          fetches |-> 1]

\* No CourseOutlineTool.execute call has been made yet
NoOutlineCall ==
    [op |-> "none", course_title |-> << >>,
     resolution |-> [raised |-> FALSE, title |-> None],
     got |-> [raised |-> FALSE, results |-> None],
     raised |-> FALSE, text |-> << >>, fetches |-> 0]

\* The record of one CourseOutlineTool.execute call
OutlineCall(course_title, resolution, got, done) ==
    [op |-> "execute", course_title |-> course_title,
     resolution |-> resolution, got |-> got, raised |-> done.raised,
     text |-> done.text, fetches |-> done.fetches]

NoStore ==
    /\ store_call = NoStoreCall
    /\ course_catalog = EmptyCatalog
    /\ outline_call = NoOutlineCall

\* The keyword arguments of CourseSearchTool.execute
CourseNames == { None, Some(<< >>), Some(<<"Course A">>) }

LessonNumbers == { None, Some(0), Some(1) }

---------------------------------------------------------------------------
(* backend/search_tools.py: CourseSearchTool *)

\* The tools that have a last_sources attribute: the CourseSearchTool, and
\* a second source-tracking tool registered under a name of its own
SearchTool == "CourseSearchTool"

OtherSearchTool == "OtherSearchTool"

TrackingTools == { SearchTool, OtherSearchTool }

\* CourseSearchTool.__init__
NoSources == [t \in TrackingTools |-> << >>]

\* The header leaves out a lesson number that is falsy
HeaderWithoutLessonZero(course_title, lesson_num) ==
    <<"[">> \o course_title
    \o (IF TruthyInt(lesson_num)
        THEN <<" - Lesson ">> \o Str(lesson_num.v) ELSE << >>)
    \o <<"]">>

\* header of one result
header(course_title, lesson_num) ==
    <<"[">> \o course_title
    \o (IF ~lesson_num.isNone
        THEN <<" - Lesson ">> \o Str(lesson_num.v) ELSE << >>)
    \o <<"]">>

source_key(course_title, lesson_num) ==
    course_title \o <<"|">> \o StrOpt(lesson_num)

\* The entry of sources_dict for one (course, lesson)
SourceEntry(course_title, lesson_num) ==
    [text |-> course_title
              \o (IF ~lesson_num.isNone
                  THEN <<" - Lesson ">> \o Str(lesson_num.v) ELSE << >>),
     link |-> IF ~lesson_num.isNone
              THEN get_lesson_link(course_title, lesson_num.v) ELSE None]

\* The keys of sources_dict, a dict kept as its items in insertion order
Keys(sources_dict) == { sources_dict[i].key : i \in 1..Len(sources_dict) }

\* Every result adds an entry, whether its key is there or not
SourcesDictPutAlways(sources_dict, course_title, lesson_num) ==
    Append(sources_dict,
           [key |-> source_key(course_title, lesson_num),
            value |-> SourceEntry(course_title, lesson_num)])

\* if source_key not in sources_dict: sources_dict[source_key] = {...}
SourcesDictPut(sources_dict, course_title, lesson_num) ==
    IF source_key(course_title, lesson_num) \notin Keys(sources_dict)
    THEN Append(sources_dict,
                [key |-> source_key(course_title, lesson_num),
                 value |-> SourceEntry(course_title, lesson_num)])
    ELSE sources_dict

\* The store is asked for the link of every result that has a lesson number
LinkCallsPutEveryResult(link_calls, sources_dict, course_title, lesson_num) ==
    IF ~lesson_num.isNone
    THEN Append(link_calls, <<course_title, lesson_num.v>>)
    ELSE link_calls

\* The calls of store.get_lesson_link so far, as their arguments: one more
\* under `if source_key not in sources_dict` and `if lesson_num is not None`
LinkCallsPut(link_calls, sources_dict, course_title, lesson_num) ==
    IF /\ source_key(course_title, lesson_num) \notin Keys(sources_dict)
       /\ ~lesson_num.isNone
    THEN Append(link_calls, <<course_title, lesson_num.v>>)
    ELSE link_calls

\* The for loop of _format_results from the i-th (doc, meta) pair on
RECURSIVE FormatLoop(_, _, _, _, _)
FormatLoop(results, i, formatted, sources_dict, link_calls) ==
    IF i > Len(results.documents) \/ i > Len(results.metadata)
    THEN [formatted |-> formatted, sources_dict |-> sources_dict,
          link_calls |-> link_calls]
    ELSE LET doc == results.documents[i]
             course_title == results.metadata[i].course_title
             lesson_num == results.metadata[i].lesson_number
         IN  FormatLoop(results, i + 1,
                        Append(formatted,
                               header(course_title, lesson_num)
                               \o <<"\n">> \o doc),
                        SourcesDictPut(sources_dict, course_title,
                                       lesson_num),
                        LinkCallsPut(link_calls, sources_dict, course_title,
                                     lesson_num))

\* CourseSearchTool._format_results: the text returned and the value
\* assigned to self.last_sources
_format_results(results) ==
    LET end == FormatLoop(results, 1, << >>, << >>, << >>)
    IN  [text |-> Join(end.formatted, <<"\n\n">>),
         last_sources |-> [i \in 1..Len(end.sources_dict) |->
                             end.sources_dict[i].value]]

\* filter_info of the empty-results message
filter_info(course_name, lesson_number) ==
    (IF Truthy(course_name)
     THEN <<" in course '">> \o course_name.v \o <<"'">> ELSE << >>)
    \o (IF TruthyInt(lesson_number)
        THEN <<" in lesson ">> \o Str(lesson_number.v) ELSE << >>)

\* The store's error is wrapped in a message of the tool
ExecuteWrappingError(results, course_name, lesson_number, prior) ==
    IF Truthy(results.error)
    THEN [text |-> <<"Search failed: ">> \o results.error.v,
          last_sources |-> prior]
    ELSE IF is_empty(results)
    THEN [text |-> <<"No relevant content found">>
                   \o filter_info(course_name, lesson_number) \o <<".">>,
          last_sources |-> prior]
    ELSE _format_results(results)

\* CourseSearchTool.execute once store.search has returned results: the
\* text returned and the value of self.last_sources afterwards, prior being
\* its value before the call
execute(results, course_name, lesson_number, prior) ==
    IF Truthy(results.error)
    THEN [text |-> results.error.v, last_sources |-> prior]
    ELSE IF is_empty(results)
    THEN [text |-> <<"No relevant content found">>
                   \o filter_info(course_name, lesson_number) \o <<".">>,
          last_sources |-> prior]
    ELSE _format_results(results)

---------------------------------------------------------------------------
(* backend/search_tools.py: CourseOutlineTool and ToolManager *)

OutlineTool == "CourseOutlineTool"

AllTools == TrackingTools \cup { OutlineTool }

\* Other implementations of Tool: one whose definition has the name of the
\* search tool, one whose definition has the name "", one whose definition
\* has no name
SameNameTool == "SameNameTool"

EmptyNameTool == "EmptyNameTool"

NamelessTool == "NamelessTool"

\* tool.get_tool_definition()["name"]
ToolDefName(t) ==
    IF t = SearchTool THEN "search_course_content"
    ELSE IF t = OutlineTool THEN "get_course_outline"
    ELSE IF t = SameNameTool THEN "search_course_content"
    ELSE IF t = EmptyNameTool THEN ""
    ELSE "search_other_content"

\* tool_def.get("name")
DefinitionName(t) == IF t = NamelessTool THEN None ELSE Some(ToolDefName(t))

\* The texts CourseOutlineTool.execute returns
OutlineTexts == { <<"**Course:** Course A\n**Course Link:** No link available\n**Lessons:**\n  No lessons found">> }

\* What a tool's execute is called with and meets: whether the keyword
\* arguments lack the tool's required argument, so that the call raises;
\* the optional arguments; what store.search returns to a search tool; the
\* text an outline tool builds
ToolInput(raises, course_name, lesson_number, results, outline) ==
    [raises |-> raises, course_name |-> course_name,
     lesson_number |-> lesson_number, results |-> results,
     outline |-> outline]

\* str(e) of the TypeError that self.tools[tool_name].execute(**kwargs)
\* raises when kwargs lacks the required argument of tool t: query for a
\* search tool, course_title for the outline tool
ExecuteError(t) ==
    IF t = OutlineTool
    THEN "CourseOutlineTool.execute() missing 1 required positional argument: 'course_title'"
    ELSE IF t = SearchTool
    THEN "CourseSearchTool.execute() missing 1 required positional argument: 'query'"
    ELSE "OtherSearchTool.execute() missing 1 required positional argument: 'query'"

\* last_sources is one list shared by all the tools
ToolExecuteSharedSources(t, in, ls) ==
    IF in.raises
    THEN [raised |-> TRUE, text |-> <<ExecuteError(t)>>, last_sources |-> ls]
    ELSE IF t \in TrackingTools
    THEN LET done == execute(in.results, in.course_name, in.lesson_number,
                             ls[t])
         IN  [raised |-> FALSE, text |-> done.text,
              last_sources |-> [u \in DOMAIN ls |-> done.last_sources]]
    ELSE [raised |-> FALSE, text |-> in.outline, last_sources |-> ls]

\* A search tool raises when the store reports an error
ToolExecuteRaisingOnError(t, in, ls) ==
    IF in.raises \/ (t \in TrackingTools /\ Truthy(in.results.error))
    THEN [raised |-> TRUE, text |-> <<ExecuteError(t)>>, last_sources |-> ls]
    ELSE IF t \in TrackingTools
    THEN LET done == execute(in.results, in.course_name, in.lesson_number,
                             ls[t])
         IN  [raised |-> FALSE, text |-> done.text,
              last_sources |-> [ls EXCEPT ![t] = done.last_sources]]
    ELSE [raised |-> FALSE, text |-> in.outline, last_sources |-> ls]

\* The sources of a search are added to those already there
ToolExecuteMergingSources(t, in, ls) ==
    IF in.raises
    THEN [raised |-> TRUE, text |-> <<ExecuteError(t)>>, last_sources |-> ls]
    ELSE IF t \in TrackingTools
    THEN LET done == execute(in.results, in.course_name, in.lesson_number,
                             ls[t])
         IN  [raised |-> FALSE, text |-> done.text,
              last_sources |->
                [ls EXCEPT ![t] = IF done.last_sources = ls[t] THEN ls[t]
                                  ELSE ls[t] \o done.last_sources]]
    ELSE [raised |-> FALSE, text |-> in.outline, last_sources |-> ls]

\* tool.execute(**kwargs) of tool t, ls being last_sources of every tool:
\* whether it raised, the text returned, and last_sources afterwards
ToolExecute(t, in, ls) ==
    IF in.raises
    THEN [raised |-> TRUE, text |-> <<ExecuteError(t)>>, last_sources |-> ls]
    ELSE IF t \in TrackingTools
    THEN LET done == execute(in.results, in.course_name, in.lesson_number,
                             ls[t])
         IN  [raised |-> FALSE, text |-> done.text,
              last_sources |-> [ls EXCEPT ![t] = done.last_sources]]
    ELSE [raised |-> FALSE, text |-> in.outline, last_sources |-> ls]

\* ToolManager.tools is a dict, kept as its (name, tool) items in insertion
\* order
Names(tls) == { tls[i].name : i \in 1..Len(tls) }

\* self.tools[tool_name]
Lookup(tls, tool_name) ==
    LET i == CHOOSE i \in 1..Len(tls) : tls[i].name = tool_name
    IN  tls[i].tool

\* self.tools[tool_name] = tool: a new key goes last, a key already there
\* keeps its place
SetItem(tls, tool_name, t) ==
    IF tool_name \in Names(tls)
    THEN [i \in 1..Len(tls) |->
            IF tls[i].name = tool_name
            THEN [name |-> tool_name, tool |-> t] ELSE tls[i]]
    ELSE Append(tls, [name |-> tool_name, tool |-> t])

\* str(e) of the ValueError of register_tool
NameError == <<"Tool must have a 'name' in its definition">>

\* A tool is registered whatever the name of its definition
RegisterToolUnchecked(tls, t) ==
    LET tool_name == DefinitionName(t)
    IN  [raised |-> FALSE, error |-> << >>,
         tools |-> SetItem(tls, IF tool_name.isNone THEN "None"
                                ELSE tool_name.v, t)]

\* ToolManager.register_tool(tool): whether it raised, str(e), and
\* self.tools afterwards
register_tool(tls, t) ==
    LET tool_name == DefinitionName(t)
    IN  IF tool_name.isNone \/ tool_name.v = ""
        THEN [raised |-> TRUE, error |-> NameError, tools |-> tls]
        ELSE [raised |-> FALSE, error |-> << >>,
              tools |-> SetItem(tls, tool_name.v, t)]

\* The manager after register_tool on each tool of a sequence
RECURSIVE Registered(_)
Registered(ts) ==
    IF Len(ts) = 0 THEN << >>
    ELSE register_tool(Registered(SubSeq(ts, 1, Len(ts) - 1)),
                       ts[Len(ts)]).tools

\* ToolManager.get_tool_definitions, each definition shown by its name
get_tool_definitions(tls) == [i \in 1..Len(tls) |-> ToolDefName(tls[i].tool)]

\* Every call of an unregistered name raises KeyError
ExecuteToolUnchecked(tls, tool_name, in, ls) ==
    IF tool_name \notin Names(tls)
    THEN [raised |-> TRUE, text |-> <<"KeyError">>, last_sources |-> ls]
    ELSE ToolExecute(Lookup(tls, tool_name), in, ls)

\* ToolManager.execute_tool(tool_name, **kwargs)
execute_tool(tls, tool_name, in, ls) ==
    IF tool_name \notin Names(tls)
    THEN [raised |-> FALSE,
          text |-> <<"Tool '", tool_name, "' not found">>,
          last_sources |-> ls]
    ELSE ToolExecute(Lookup(tls, tool_name), in, ls)

\* self.tools.values() gone through from the last tool to the first
ToolAtReversed(tls, i) == tls[Len(tls) + 1 - i].tool

\* The i-th tool of self.tools.values()
ToolAt(tls, i) == tls[i].tool

\* hasattr(tool, "last_sources") and tool.last_sources
HasSources(t, ls) == t \in TrackingTools /\ ls[t] # << >>

\* The loop of get_last_sources from the i-th tool on, when nothing else
\* runs meanwhile: the tool whose last_sources is returned, "none" when the
\* loop ends without a return
RECURSIVE ToolWithSourcesFrom(_, _, _)
ToolWithSourcesFrom(tls, ls, i) ==
    IF i > Len(tls) THEN "none"
    ELSE IF HasSources(ToolAt(tls, i), ls)
    THEN ToolAt(tls, i)
    ELSE ToolWithSourcesFrom(tls, ls, i + 1)

ToolWithSources(tls, ls) == ToolWithSourcesFrom(tls, ls, 1)

\* ToolManager.get_last_sources when nothing else runs meanwhile
get_last_sources(tls, ls) ==
    IF ToolWithSources(tls, ls) = "none" THEN << >>
    ELSE ls[ToolWithSources(tls, ls)]

\* The tools of the manager that have a last_sources attribute
Tracked(tls) == { tls[i].tool : i \in 1..Len(tls) } \cap TrackingTools

\* Nothing is cleared
ClearNothing(t, ls) == ls

\* Only the CourseSearchTool is cleared
ClearSearchToolOnly(t, ls) ==
    IF t = SearchTool THEN [ls EXCEPT ![t] = << >>] ELSE ls

\* One iteration of the loop of reset_sources, on tool t:
\* if hasattr(tool, "last_sources"): tool.last_sources = []
ClearSources(t, ls) ==
    IF t \in TrackingTools THEN [ls EXCEPT ![t] = << >>] ELSE ls

\* No call has been made on a tool yet
NoCall ==
    [op |-> "none", tool |-> "none", course_name |-> None,
     lesson_number |-> None,
     results |-> SearchResults(<< >>, << >>, << >>, None), text |-> << >>,
     link_calls |-> << >>]

\* The calls of store.get_lesson_link that execute makes on these results:
\* those of _format_results, which an error or an empty result never reaches
LinkCallsOfExecute(results) ==
    IF Truthy(results.error) \/ is_empty(results)
    THEN << >>
    ELSE FormatLoop(results, 1, << >>, << >>, << >>).link_calls

\* The record of one CourseSearchTool.execute call on tool t
ExecuteCall(t, results, course_name, lesson_number, text) ==
    [op |-> "execute", tool |-> t, course_name |-> course_name,
     lesson_number |-> lesson_number, results |-> results, text |-> text,
     link_calls |-> LinkCallsOfExecute(results)]

\* The record of a call of a manager method, or of execute_tool on a name
\* that is not a search tool's
ManagerCall(op, text) == [NoCall EXCEPT !.op = op, !.text = text]

\* The managers: the first is set up in several ways, the second has one
\* search tool
Managers == { 1, 2 }

\* The orders in which the first manager's tools are registered
Registrations ==
    { <<SearchTool, OutlineTool>>,
      <<SearchTool, OtherSearchTool>>,
      <<OtherSearchTool, OutlineTool, SearchTool>> }

\* The callers of RAGSystem.query
Callers == { 1, 2 }

\* A caller that has not started its query: the manager it uses, the
\* number of execute_tool calls of its query, whether one of its searches
\* returned results, the sources it was given and the caller whose search
\* had assigned them
IdleCaller(m) ==
    [pc |-> "idle", manager |-> m, executions |-> 0, found |-> FALSE,
     sources |-> << >>, from |-> 0, i |-> 0]

\* No manager is set up and no caller runs
NoCallers ==
    /\ manager_tools = [m \in Managers |-> << >>]
    /\ writer = [t \in TrackingTools |-> 0]
    /\ callers = [c \in Callers |-> IdleCaller(1)]
    /\ serialized = TRUE

callers_state == <<manager_tools, writer, callers, serialized>>

---------------------------------------------------------------------------
(* Initial state: generate_response is about to be called *)

Init ==
    /\ pc = "start"
    /\ query \in Queries
    /\ conversation_history \in Histories
    /\ tools \in ToolsArgs
    /\ tool_manager \in BOOLEAN
    /\ messages = << >>
    /\ current_round = 0
    /\ errors = << >>
    /\ response = NoResponse
    /\ block_idx = 0
    /\ result = ToolExecutionResult
    /\ calls = << >>
    /\ tool_log = << >>
    /\ llm_log = << >>
    /\ round_responses = << >>
    /\ outcome = NoOutcome
    /\ last_sources = NoSources
    /\ tcall = NoCall
    /\ NoStore
    /\ NoCallers

args == <<query, conversation_history, tools, tool_manager>>

---------------------------------------------------------------------------
(* Actions *)

\* _generate_simple_response: one call, its text returned; nothing is caught
_generate_simple_response ==
    /\ calls' = Append(calls, SimpleRequest(query, conversation_history))
    /\ \E read \in LLMReads(Len(calls) + 1) :
         /\ llm_log' = Append(llm_log, read)
         /\ outcome' = read.text
    /\ pc' = "done"
    /\ UNCHANGED <<messages, current_round, errors, response, block_idx,
                   result, tool_log, round_responses>>

\* generate_response: the simple path, or a fresh RoundContext
generate_response ==
    /\ pc = "start"
    /\ IF ~Truthy(tools) \/ ~tool_manager
       THEN _generate_simple_response
       ELSE /\ messages' = InitialMessages(query)
            /\ current_round' = 0
            /\ errors' = << >>
            /\ pc' = "process_rounds"
            /\ UNCHANGED <<response, block_idx, result, calls, tool_log,
                           llm_log, round_responses, outcome>>
    /\ UNCHANGED <<args, tool_layer>>

\* _handle_max_rounds_reached: the finalize call; nothing is caught
_handle_max_rounds_reached ==
    /\ calls' = Append(calls, final_params(messages, conversation_history))
    /\ \E read \in LLMReads(Len(calls) + 1) :
         /\ llm_log' = Append(llm_log, read)
         /\ outcome' = read.text
    /\ pc' = "done"
    /\ UNCHANGED <<messages, errors, response, block_idx, result, tool_log,
                   round_responses>>

\* _execute_round in round r, and what _process_rounds_recursive does with
\* its outcome up to the start of tool execution
_execute_round(r) ==
    /\ calls' = Append(calls, RoundRequest(messages, conversation_history,
                                           tools, r))
    /\ \E o \in LLMOutcomes(Len(calls) + 1) :
         /\ llm_log' = Append(llm_log, LogEntry(o))
         /\ \/ /\ o.raised
               /\ errors' = _handle_round_error(errors, r, o.error)
               /\ outcome' = Returned(RoundErrorText)
               /\ pc' = "done"
               /\ UNCHANGED <<response, block_idx, result, round_responses>>
            \/ /\ ~o.raised
               /\ ~IsToolUse(o.response)
               /\ response' = o.response
               /\ round_responses' = Append(round_responses, o.response)
               /\ outcome' = _extract_final_response(o.response)
               /\ pc' = "done"
               /\ UNCHANGED <<errors, block_idx, result>>
            \/ /\ ~o.raised
               /\ IsToolUse(o.response)
               /\ response' = o.response
               /\ round_responses' = Append(round_responses, o.response)
               /\ result' = ToolExecutionResult
               /\ block_idx' = 1
               /\ pc' = "execute_tools"
               /\ UNCHANGED <<errors, outcome>>
    /\ UNCHANGED <<messages, tool_log>>

\* _process_rounds_recursive, from its entry to the round's LLM call
_process_rounds_recursive ==
    /\ pc = "process_rounds"
    /\ current_round' = NextRound(current_round)
    /\ IF MaxRoundsReached(NextRound(current_round))
       THEN _handle_max_rounds_reached
       ELSE _execute_round(NextRound(current_round))
    /\ UNCHANGED <<args, tool_layer>>

\* The body of the loop of _execute_tools_for_round for a tool_use block,
\* o being what tool_manager.execute_tool did
ExecuteBlock(block, o) ==
    /\ tool_log' = Append(tool_log, ToolCall(current_round, block, o))
    /\ IF o.raised
       THEN /\ result' = ResultAfterRaise(result, o.error)
            /\ errors' = ToolErrorLog(errors, current_round,
                                      result'.error_message.v)
            /\ block_idx' = LoopAfterRaise(block_idx, Len(response.content))
       ELSE /\ result' = ResultAfterReturn(result, block, o.text)
            /\ block_idx' = block_idx + 1
            /\ UNCHANGED errors

\* The body of the loop for a block that is not a tool_use block
SkipBlock ==
    /\ block_idx' = block_idx + 1
    /\ UNCHANGED <<result, errors, tool_log>>

\* _execute_tools_for_round: one iteration of the loop over response.content
_execute_tools_for_round ==
    /\ pc = "execute_tools"
    /\ block_idx <= Len(response.content)
    /\ LET block == response.content[block_idx] IN
         IF block.type = "tool_use"
         THEN \E o \in ToolOutcomes : ExecuteBlock(block, o)
         ELSE SkipBlock
    /\ UNCHANGED <<pc, messages, current_round, response, calls, llm_log,
                   round_responses, outcome>>
    /\ UNCHANGED <<args, tool_layer>>

\* _process_rounds_recursive after the loop: the failure path, or the
\* transcript update and the recursive call
FinishRound ==
    /\ pc = "execute_tools"
    /\ block_idx > Len(response.content)
    /\ IF result.failed
       THEN /\ pc' = "tool_failure"
            /\ messages' = TranscriptOnFailure(messages, response, result)
       ELSE /\ messages' = _update_context_with_tool_results(messages, response,
                                                        result)
            /\ pc' = "process_rounds"
    /\ UNCHANGED <<current_round, errors, response, block_idx, result, calls,
                   tool_log, llm_log, round_responses, outcome>>
    /\ UNCHANGED <<args, tool_layer>>

\* _handle_tool_execution_failure: the fallback call inside try/except
_handle_tool_execution_failure ==
    /\ pc = "tool_failure"
    /\ calls' = Append(calls, fallback_params(messages, conversation_history,
                                              current_round,
                                              result.error_message.v))
    /\ \E read \in LLMReads(Len(calls) + 1) :
         /\ llm_log' = Append(llm_log, read)
         /\ outcome' = IF read.text.kind = "raised"
                       THEN Returned(Apology(result.error_message.v))
                       ELSE read.text
    /\ pc' = "done"
    /\ UNCHANGED <<messages, current_round, errors, response, block_idx,
                   result, tool_log, round_responses>>
    /\ UNCHANGED <<args, tool_layer>>

Next ==
    \/ generate_response
    \/ _process_rounds_recursive
    \/ _execute_tools_for_round
    \/ FinishRound
    \/ _handle_tool_execution_failure

Spec == Init /\ [][Next]_vars

\* Every LLM call and every tool call returns or raises in the end, and a
\* response has finitely many blocks: a step that can be taken is taken
LiveSpec == Init /\ [][Next]_vars /\ WF_vars(Next)

---------------------------------------------------------------------------
(* CourseSearchTool on its own: execute is called again and again on one
   tool, with every keyword arguments and every store result *)

\* Nothing of generate_response is running
NoQuery ==
    /\ pc = "idle"
    /\ query = << >>
    /\ conversation_history = None
    /\ tools = None
    /\ tool_manager = FALSE
    /\ messages = << >>
    /\ current_round = 0
    /\ errors = << >>
    /\ response = NoResponse
    /\ block_idx = 0
    /\ result = ToolExecutionResult
    /\ calls = << >>
    /\ tool_log = << >>
    /\ llm_log = << >>
    /\ round_responses = << >>
    /\ outcome = NoOutcome

generator == <<pc, query, conversation_history, tools, tool_manager,
               messages, current_round, errors, response, block_idx, result,
               calls, tool_log, llm_log, round_responses, outcome>>

InitSearch ==
    /\ NoQuery
    /\ last_sources = NoSources
    /\ tcall = NoCall
    /\ NoStore
    /\ NoCallers

\* CourseSearchTool.execute(query, course_name, lesson_number) on tool t
CourseSearchTool_execute(t) ==
    \E course_name \in CourseNames, lesson_number \in LessonNumbers,
       results \in StoreResults :
        LET done == execute(results, course_name, lesson_number,
                            last_sources[t])
        IN  /\ last_sources' = [last_sources EXCEPT ![t] = done.last_sources]
            /\ tcall' = ExecuteCall(t, results, course_name, lesson_number,
                                    done.text)
            /\ UNCHANGED <<generator, callers_state, store_state>>

NextSearch == CourseSearchTool_execute(SearchTool)

SpecSearch == InitSearch /\ [][NextSearch]_vars

---------------------------------------------------------------------------
(* CourseSearchTool.execute over VectorStore.search, called again and
   again with every combination of filters, resolution and store outcome *)

InitStore == InitSearch

\* CourseSearchTool.execute(query, course_name, lesson_number) on tool t:
\* store.search runs, then the tool renders what it returned
SearchThroughStore(t) ==
    \E course_name \in CourseNames, lesson_number \in LessonNumbers,
       resolution \in Resolutions, met \in StoreOutcomes :
        LET found == search(course_name, lesson_number, resolution, met)
            done == execute(found.results, course_name, lesson_number,
                            last_sources[t])
        IN  /\ store_call' = StoreCall(course_name, lesson_number,
                                       resolution, met, found)
            /\ last_sources' = [last_sources EXCEPT ![t] = done.last_sources]
            /\ tcall' = ExecuteCall(t, found.results, course_name,
                                    lesson_number, done.text)
            /\ UNCHANGED <<generator, callers_state, course_catalog,
                           outline_call>>

NextStore == SearchThroughStore(SearchTool)

SpecStore == InitStore /\ [][NextStore]_vars

---------------------------------------------------------------------------
(* CourseOutlineTool.execute over a catalog that add_course_metadata
   fills *)

InitOutline == InitSearch

\* The titles the outline tool is called with
OutlineTitles == { <<"Course">>, <<"MCP">> }

\* VectorStore.add_course_metadata(course): one record keyed by the title
add_course_metadata ==
    \E course \in Courses :
        /\ course_catalog' = [course_catalog EXCEPT
                                ![course.title] = Some(CourseMetadata(course))]
        /\ UNCHANGED <<generator, last_sources, tcall, callers_state,
                       store_call, outline_call>>

\* What course_catalog.get(ids=[resolved_title]) does: it raises, answers
\* nothing, answers with the record of the catalog (no record when the
\* catalog has none under the title), or with a record written otherwise
GetOutcomes(resolution) ==
    { [raised |-> TRUE, error |-> e] : e \in CatalogErrors }
    \cup { [raised |-> FALSE, results |-> None] }
    \cup (IF resolution.raised \/ resolution.title.isNone
          THEN {}
          ELSE LET stored == course_catalog[resolution.title.v]
               IN  { [raised |-> FALSE,
                      results |-> Some([metadatas |->
                                   IF stored.isNone THEN << >>
                                   ELSE << stored.v >>])] }
                   \cup { [raised |-> FALSE,
                           results |-> Some([metadatas |-> << m >>])] :
                            m \in ForeignMetadata(resolution.title.v) })

\* CourseOutlineTool.execute(course_title)
CourseOutlineTool_execute ==
    \E course_title \in OutlineTitles, resolution \in ResolveOutcomes :
        \E got \in GetOutcomes(resolution) :
            LET done == execute_outline(course_title, resolution, got)
            IN  /\ outline_call' = OutlineCall(course_title, resolution,
                                               got, done)
                /\ UNCHANGED <<generator, last_sources, tcall,
                               callers_state, store_call, course_catalog>>

NextOutline ==
    \/ add_course_metadata
    \/ CourseOutlineTool_execute

SpecOutline == InitOutline /\ [][NextOutline]_vars

---------------------------------------------------------------------------
(* ToolManager.register_tool, called again and again on the managers *)

InitRegistry == InitSearch

\* The tools handed to register_tool
RegistrableTools ==
    { SearchTool, OutlineTool, OtherSearchTool, SameNameTool, EmptyNameTool,
      NamelessTool }

\* The record of one register_tool call on manager m
RegisterCall(m, t, done) ==
    [op |-> "register_tool", tool |-> t, manager |-> m,
     raised |-> done.raised, text |-> done.error]

\* manager.register_tool(tool) on manager m
RegisterTool(m) ==
    \E t \in RegistrableTools :
        LET done == register_tool(manager_tools[m], t)
        IN  /\ manager_tools' = [manager_tools EXCEPT ![m] = done.tools]
            /\ tcall' = RegisterCall(m, t, done)
            /\ UNCHANGED <<generator, last_sources, writer, callers,
                           serialized, store_state>>

NextRegistry == \E m \in Managers : RegisterTool(m)

SpecRegistry == InitRegistry /\ [][NextRegistry]_vars

---------------------------------------------------------------------------
(* ToolManager and its callers: every caller runs one query, which makes
   execute_tool calls and then, as RAGSystem.query does, reads the sources
   with get_last_sources and clears them with reset_sources *)

\* The names the callers' queries execute
CallNames == { ToolDefName(t) : t \in AllTools }

\* What the tools of the callers' queries are called with and meet: no
\* filter, and a store that reports an error, finds nothing, or finds one
\* chunk of lesson 1 of a course
CallerInputs ==
    { ToolInput(FALSE, None, None, r, o) :
        r \in { r \in StoreResults :
                  /\ Len(r.documents) <= 1
                  /\ \A i \in 1..Len(r.metadata) :
                        r.metadata[i].lesson_number = Some(1) },
        o \in OutlineTexts }

InitTools ==
    /\ NoQuery
    /\ last_sources = NoSources
    /\ tcall = NoCall
    /\ NoStore
    /\ \E ts \in Registrations :
         manager_tools = [m \in Managers |->
                            IF m = 1 THEN Registered(ts)
                            ELSE Registered(<<OtherSearchTool>>)]
    /\ writer = [t \in TrackingTools |-> 0]
    /\ \E m \in Managers :
         callers = [c \in Callers |-> IdleCaller(IF c = 1 THEN 1 ELSE m)]
    /\ serialized \in BOOLEAN

\* The caller is inside its query
Running(c) ==
    callers[c].pc \in { "generating", "reading", "returning", "read",
                        "resetting" }

\* store.search found documents: the call reaches _format_results, which
\* assigns last_sources
Assigns(in) ==
    ~in.raises /\ ~Truthy(in.results.error) /\ ~is_empty(in.results)

\* The caller starts its query; callers that serialize wait for the
\* running query to end
StartQuery(c) ==
    /\ callers[c].pc = "idle"
    /\ serialized => \A d \in Callers : ~Running(d)
    /\ callers' = [callers EXCEPT ![c].pc = "generating"]
    /\ UNCHANGED <<last_sources, tcall, manager_tools, writer, serialized>>
    /\ UNCHANGED <<generator, store_state>>

\* tool_manager.execute_tool(tool_name, **kwargs) inside the caller's query
ExecuteTool(c) ==
    /\ callers[c].pc = "generating"
    /\ callers[c].executions < MaxExecutions
    /\ \E tool_name \in CallNames, in \in CallerInputs :
         LET tls == manager_tools[callers[c].manager]
             done == execute_tool(tls, tool_name, in, last_sources)
             searched == /\ tool_name \in Names(tls)
                         /\ Lookup(tls, tool_name) \in TrackingTools
         IN  /\ last_sources' = done.last_sources
             /\ tcall' = IF searched
                         THEN ExecuteCall(Lookup(tls, tool_name), in.results,
                                          in.course_name, in.lesson_number,
                                          done.text)
                         ELSE ManagerCall("execute_tool", done.text)
             /\ writer' = IF searched /\ Assigns(in)
                          THEN [writer EXCEPT ![Lookup(tls, tool_name)] = c]
                          ELSE writer
             /\ callers' = [callers EXCEPT
                              ![c].executions = @ + 1,
                              ![c].found = @ \/ (searched /\ Assigns(in))]
    /\ UNCHANGED <<manager_tools, serialized>>
    /\ UNCHANGED <<generator, store_state>>

\* sources = tool_manager.get_last_sources() after the query's answer, one
\* iteration of its loop at a time: the method holds no lock, and the other
\* caller's calls run between two iterations. The iteration tests the i-th
\* tool; the call returns [] when the last tool has been tested in vain
GetLastSources(c) ==
    /\ callers[c].pc \in { "generating", "reading" }
    /\ LET tls == manager_tools[callers[c].manager]
           i == IF callers[c].pc = "generating" THEN 1 ELSE callers[c].i
       IN  callers' = [callers EXCEPT ![c] =
                         IF i <= Len(tls)
                            /\ HasSources(ToolAt(tls, i), last_sources)
                         THEN [@ EXCEPT !.pc = "returning", !.i = i]
                         ELSE IF i >= Len(tls)
                         THEN [@ EXCEPT !.pc = "read", !.i = 0,
                                        !.sources = << >>, !.from = 0]
                         ELSE [@ EXCEPT !.pc = "reading", !.i = i + 1]]
    /\ tcall' = ManagerCall("get_last_sources", << >>)
    /\ UNCHANGED <<last_sources, manager_tools, writer, serialized>>
    /\ UNCHANGED <<generator, store_state>>

\* return tool.last_sources: the attribute is read again after the test
ReturnLastSources(c) ==
    /\ callers[c].pc = "returning"
    /\ LET t == ToolAt(manager_tools[callers[c].manager], callers[c].i)
       IN  callers' = [callers EXCEPT ![c] =
                         [@ EXCEPT !.pc = "read", !.i = 0,
                                   !.sources = last_sources[t],
                                   !.from = writer[t]]]
    /\ tcall' = ManagerCall("get_last_sources", << >>)
    /\ UNCHANGED <<last_sources, manager_tools, writer, serialized>>
    /\ UNCHANGED <<generator, store_state>>

\* tool_manager.reset_sources() after the sources were read, one iteration
\* of its loop at a time: the iteration clears the i-th tool
ResetSources(c) ==
    /\ callers[c].pc \in { "read", "resetting" }
    /\ LET tls == manager_tools[callers[c].manager]
           i == IF callers[c].pc = "read" THEN 1 ELSE callers[c].i
       IN  /\ last_sources' =
                 IF i <= Len(tls)
                 THEN ClearSources(ToolAt(tls, i), last_sources)
                 ELSE last_sources
           /\ writer' = [t \in TrackingTools |->
                           IF i <= Len(tls) /\ t = ToolAt(tls, i)
                           THEN 0 ELSE writer[t]]
           /\ callers' = [callers EXCEPT ![c] =
                            IF i >= Len(tls)
                            THEN [@ EXCEPT !.pc = "done", !.i = 0]
                            ELSE [@ EXCEPT !.pc = "resetting", !.i = i + 1]]
    /\ tcall' = ManagerCall("reset_sources", << >>)
    /\ UNCHANGED <<manager_tools, serialized>>
    /\ UNCHANGED <<generator, store_state>>

NextTools ==
    \/ \E c \in Callers : StartQuery(c)
    \/ \E c \in Callers : ExecuteTool(c)
    \/ \E c \in Callers : GetLastSources(c)
    \/ \E c \in Callers : ReturnLastSources(c)
    \/ \E c \in Callers : ResetSources(c)

SpecTools == InitTools /\ [][NextTools]_vars

---------------------------------------------------------------------------
(* generate_response with a ToolManager as its tool_manager *)

\* The manager generate_response is given
TheManager == 1

\* The orders in which the manager's tools are registered: the search tool
\* alone (get_course_outline is then a name the manager does not know), or
\* the search tool and the outline tool
ManagerRegistrations ==
    { <<SearchTool>>, <<SearchTool, OutlineTool>> }

\* What the tools are called with and meet: no filter and a store that
\* finds nothing or one chunk of lesson 1 of a course, or a call without
\* the tool's required argument
ManagerInputs ==
    { in \in CallerInputs : ~Truthy(in.results.error) }
    \cup { ToolInput(TRUE, None, None,
                       SearchResults(<< >>, << >>, << >>, None), o) :
             o \in OutlineTexts }

InitManager ==
    /\ pc = "start"
    /\ query = <<"What is RAG?">>
    /\ conversation_history = None
    /\ \E ts \in ManagerRegistrations :
         /\ manager_tools = [m \in Managers |->
                               IF m = TheManager THEN Registered(ts)
                               ELSE << >>]
         /\ tools = Some(get_tool_definitions(Registered(ts)))
    /\ tool_manager = TRUE
    /\ messages = << >>
    /\ current_round = 0
    /\ errors = << >>
    /\ response = NoResponse
    /\ block_idx = 0
    /\ result = ToolExecutionResult
    /\ calls = << >>
    /\ tool_log = << >>
    /\ llm_log = << >>
    /\ round_responses = << >>
    /\ outcome = NoOutcome
    /\ last_sources = NoSources
    /\ tcall = NoCall
    /\ NoStore
    /\ writer = [t \in TrackingTools |-> 0]
    /\ callers = [c \in Callers |-> IdleCaller(TheManager)]
    /\ serialized = TRUE

\* The body of the loop for a tool_use block with the ToolManager, in being
\* what the tool is called with and meets
ExecuteBlockOfManager(block, in) ==
    LET tls == manager_tools[TheManager]
        done == execute_tool(tls, block.name, in, last_sources)
        searched == /\ block.name \in Names(tls)
                    /\ Lookup(tls, block.name) \in TrackingTools
                    /\ ~in.raises
    IN  /\ ExecuteBlock(block,
              IF done.raised
              THEN [raised |-> TRUE, error |-> done.text[1]]
              ELSE [raised |-> FALSE, text |-> done.text])
        /\ last_sources' = done.last_sources
        /\ tcall' = IF searched
                    THEN ExecuteCall(Lookup(tls, block.name),
                                     in.results, in.course_name,
                                     in.lesson_number, done.text)
                    ELSE ManagerCall("execute_tool", done.text)

\* _execute_tools_for_round with the ToolManager: one iteration of the
\* loop over response.content
ExecuteToolsOfManager ==
    /\ pc = "execute_tools"
    /\ block_idx <= Len(response.content)
    /\ LET block == response.content[block_idx]
       IN  IF block.type = "tool_use"
           THEN \E in \in ManagerInputs : ExecuteBlockOfManager(block, in)
           ELSE SkipBlock /\ UNCHANGED <<last_sources, tcall>>
    /\ UNCHANGED <<pc, messages, current_round, response, calls, llm_log,
                   round_responses, outcome>>
    /\ UNCHANGED <<args, callers_state, store_state>>

NextManager ==
    \/ generate_response
    \/ _process_rounds_recursive
    \/ ExecuteToolsOfManager
    \/ FinishRound
    \/ _handle_tool_execution_failure

SpecManager == InitManager /\ [][NextManager]_vars

---------------------------------------------------------------------------
(* generate_response with a ToolManager whose tools meet failures: a store
   that reports an error, a course name that resolves to nothing, a call
   without the tool's required argument *)

ErrorInputs ==
    { ToolInput(FALSE, None, None, SearchResults_empty(e), o) :
        e \in SearchErrors, o \in OutlineTexts }
    \cup { ToolInput(FALSE, Some(<<"MCP">>), None,
                     SearchResults_empty(<<"No course found matching '",
                                           "MCP", "'">>), o) :
             o \in OutlineTexts }
    \cup { ToolInput(TRUE, None, None,
                     SearchResults(<< >>, << >>, << >>, None), o) :
             o \in OutlineTexts }

\* _execute_tools_for_round with the ToolManager and the failing store
ExecuteToolsOfFailingStore ==
    /\ pc = "execute_tools"
    /\ block_idx <= Len(response.content)
    /\ LET block == response.content[block_idx]
       IN  IF block.type = "tool_use"
           THEN \E in \in ErrorInputs : ExecuteBlockOfManager(block, in)
           ELSE SkipBlock /\ UNCHANGED <<last_sources, tcall>>
    /\ UNCHANGED <<pc, messages, current_round, response, calls, llm_log,
                   round_responses, outcome>>
    /\ UNCHANGED <<args, callers_state, store_state>>

NextErrors ==
    \/ generate_response
    \/ _process_rounds_recursive
    \/ ExecuteToolsOfFailingStore
    \/ FinishRound
    \/ _handle_tool_execution_failure

SpecErrors == InitManager /\ [][NextErrors]_vars

---------------------------------------------------------------------------
(* Vocabulary of the properties *)

\* generate_response took the tool path
ToolPath == Truthy(tools) /\ tool_manager

\* The kinds of the LLM calls issued so far, in order
CallKinds == [i \in 1..Len(calls) |-> calls[i].kind]

IsToolUseBlock(b) == b.type = "tool_use"

\* The tool_use blocks of a response content, in order
ToolUseBlocks(content) == SelectSeq(content, IsToolUseBlock)

\* The execute_tool calls of round r, in order
ToolCallsOfRound(r) ==
    LET InRound(e) == e.round = r
    IN  SelectSeq(tool_log, InRound)

\* The tool-result entries of round r as the tool calls made them
RoundResults(r) ==
    LET es == ToolCallsOfRound(r)
    IN  [i \in 1..Len(es) |->
           [type |-> "tool_result", tool_use_id |-> es[i].id,
            content |-> es[i].value]]

\* Some tool call raised
SomeToolRaised == \E i \in 1..Len(tool_log) : tool_log[i].raised

\* A step that completes a successful tool round
SuccessfulRoundStep == pc = "execute_tools" /\ pc' = "process_rounds"

AssistantMessage(content) ==
    [role |-> "assistant", content |-> [list |-> content]]

ToolResultsMessage(results) ==
    [role |-> "user", content |-> [list |-> results]]

---------------------------------------------------------------------------
(* Properties *)

\* C1: whatever the LLM answers or raises and whatever the tools do, one
\* call of generate_response issues at most 3 LLM calls.
C1_AtMostThreeLLMCalls == Len(calls) <= 3

\* Two tool rounds followed by a third call
C1_Witness ==
    /\ pc = "done"
    /\ Len(calls) = 3
    /\ Len(tool_log) >= 2

\* C2: every path of generate_response ends by returning a string; no
\* exception escapes to the caller.
C2_NoExceptionEscapes == pc = "done" => outcome.kind = "returned"

\* C3: on the tool path, a first response whose stop reason is not tool_use
\* ends the query at once: exactly 1 LLM call, no tool executed, and the
\* text returned is that response's text (returned whenever the response
\* starts with a text block).
C3_EarlyTermination ==
    (/\ ToolPath
     /\ Len(llm_log) >= 1
     /\ ~llm_log[1].raised
     /\ llm_log[1].stop_reason # "tool_use")
    => /\ pc = "done"
       /\ Len(calls) = 1
       /\ CallKinds = <<"round">>
       /\ tool_log = << >>
       /\ (llm_log[1].text.kind = "returned"
             => outcome = Returned(LLMText(1)))
       /\ (outcome.kind = "returned" => outcome.value = LLMText(1))

\* A first response that ends the turn although it carries a tool_use block
C3_Witness ==
    /\ pc = "done"
    /\ ToolPath
    /\ Len(round_responses) = 1
    /\ round_responses[1].stop_reason = "end_turn"
    /\ Len(round_responses[1].content) = 2
    /\ round_responses[1].content[2].type = "tool_use"
    /\ outcome = Returned(LLMText(1))

\* C4: once a tool call raises, no later tool call is made (neither a later
\* block of that round nor a further round), and the only LLM call after the
\* failure is one fallback call.
C4_ToolRaiseStopsRound ==
    \A i \in 1..Len(tool_log) :
        tool_log[i].raised =>
            LET r == tool_log[i].round IN
            /\ i = Len(tool_log)
            /\ pc \in {"execute_tools", "tool_failure", "done"}
            /\ Len(calls) \in {r, r + 1}
            /\ \A j \in 1..r : calls[j].kind = "round"
            /\ (Len(calls) = r + 1 => calls[r + 1].kind = "fallback")
            /\ (pc = "done" => Len(calls) = r + 1)

\* The first of two tool_use blocks of round 2 raised
C4_Witness ==
    /\ pc = "done"
    /\ tool_log # << >>
    /\ tool_log[Len(tool_log)].raised
    /\ tool_log[Len(tool_log)].round = 2
    /\ Len(response.content) = 2
    /\ response.content[1].type = "tool_use"
    /\ response.content[1].id = tool_log[Len(tool_log)].id
    /\ response.content[2].type = "tool_use"
    /\ CallKinds = <<"round", "round", "fallback">>

\* C5: when rounds 1 and 2 both answer tool_use and no tool call raises,
\* exactly 3 LLM calls are issued (round, round, finalize), the tools are
\* executed in call order, round 1's before round 2's, and the text returned
\* is the third call's.
C5_TwoRoundFlow ==
    (/\ pc = "done"
     /\ Len(round_responses) = 2
     /\ round_responses[1].stop_reason = "tool_use"
     /\ round_responses[2].stop_reason = "tool_use"
     /\ ~SomeToolRaised)
    => LET b1 == ToolUseBlocks(round_responses[1].content)
           b2 == ToolUseBlocks(round_responses[2].content)
       IN  /\ CallKinds = <<"round", "round", "finalize">>
           /\ [i \in 1..Len(tool_log) |->
                 <<tool_log[i].round, tool_log[i].name, tool_log[i].id>>]
              = [i \in 1..Len(b1) |-> <<1, b1[i].name, b1[i].id>>]
                \o [i \in 1..Len(b2) |-> <<2, b2[i].name, b2[i].id>>]
           /\ (llm_log[3].text.kind = "returned"
                 => outcome = Returned(LLMText(3)))
           /\ (outcome.kind = "returned" => outcome.value = LLMText(3))

\* The outline tool in round 1, the search tool in round 2, then the answer
C5_Witness ==
    /\ pc = "done"
    /\ Len(tool_log) = 2
    /\ tool_log[1].name = "get_course_outline"
    /\ tool_log[1].round = 1
    /\ tool_log[2].name = "search_course_content"
    /\ tool_log[2].round = 2
    /\ ~SomeToolRaised
    /\ outcome = Returned(LLMText(3))

\* C6: at most 2 LLM calls advertise tools; the finalize call and the
\* fallback call never do; tools are executed in rounds 1 and 2 only.
C6_AtMostTwoToolCalls ==
    /\ Cardinality({i \in 1..Len(calls) : ~calls[i].tools.isNone}) <= 2
    /\ \A i \in 1..Len(calls) :
         /\ calls[i].kind \in {"finalize", "fallback"}
              => calls[i].tools.isNone /\ calls[i].tool_choice.isNone
         /\ ~calls[i].tools.isNone => calls[i].kind = "round"
    /\ \A i \in 1..Len(tool_log) :
         /\ tool_log[i].round \in {1, 2}
         /\ ~calls[tool_log[i].round].tools.isNone

\* Tools were run in both rounds and the finalize call was made
C6_Witness ==
    /\ pc = "done"
    /\ CallKinds = <<"round", "round", "finalize">>
    /\ \E i, j \in 1..Len(tool_log) :
         tool_log[i].round = 1 /\ tool_log[j].round = 2

\* C7: when the LLM call of round k raises, generate_response returns the
\* fixed rephrase message, the error log holds exactly one entry, naming
\* round k, and neither an LLM call nor a tool call follows.
C7_RoundCallRaiseAborts ==
    \A k \in 1..Len(llm_log) :
        (calls[k].kind = "round" /\ llm_log[k].raised) =>
            /\ pc = "done"
            /\ k = Len(calls)
            /\ outcome = Returned(<<"I encountered an error while processing your request. Please try rephrasing your question.">>)
            /\ errors = << <<"Error in round ", ToString(k), ": ">>
                           \o llm_log[k].text.value >>
            /\ \A i \in 1..Len(tool_log) : tool_log[i].round < k

\* The call of round 2 raised after tools ran in round 1
C7_Witness ==
    /\ pc = "done"
    /\ Len(calls) = 2
    /\ calls[2].kind = "round"
    /\ llm_log[2].raised
    /\ tool_log # << >>

\* C8: the transcript sent with the fallback call is the transcript the
\* failing round's LLM call was sent with: nothing of the failing round is
\* appended.
C8_FallbackTranscript ==
    \A k \in 1..Len(calls) :
        calls[k].kind = "fallback" =>
            /\ k >= 2
            /\ calls[k - 1].kind = "round"
            /\ calls[k].messages = calls[k - 1].messages

\* Round 2 failed on its second tool call, after a first one that returned
C8_Witness ==
    /\ pc = "done"
    /\ CallKinds = <<"round", "round", "fallback">>
    /\ Len(ToolCallsOfRound(2)) = 2
    /\ ~ToolCallsOfRound(2)[1].raised
    /\ ToolCallsOfRound(2)[2].raised

\* C9: when the fallback call raises, generate_response returns the apology
\* text holding the tool's error message, and no LLM call follows.
C9_FallbackRaiseApology ==
    \A k \in 1..Len(llm_log) :
        (calls[k].kind = "fallback" /\ llm_log[k].raised) =>
            /\ pc = "done"
            /\ k = Len(calls)
            /\ outcome.kind = "returned"
            /\ outcome.value =
                 <<"I encountered an error while processing your request: ",
                   "Tool execution failed: ">>
                 \o tool_log[Len(tool_log)].value
            /\ Contains(outcome.value, tool_log[Len(tool_log)].value)

\* The fallback call raised after a tool failure
C9_Witness ==
    /\ pc = "done"
    /\ Len(calls) >= 2
    /\ calls[Len(calls)].kind = "fallback"
    /\ llm_log[Len(calls)].raised
    /\ tool_log[Len(tool_log)].raised

\* C10: every successful tool round appends exactly two messages, the
\* assistant message holding the response content, then one user message
\* holding the round's tool-result entries in order.
C10_TwoMessagesPerRound ==
    [][SuccessfulRoundStep =>
         messages' = messages
            \o <<AssistantMessage(response.content),
                 ToolResultsMessage(RoundResults(current_round))>>]_vars

\* The execute_tool calls of round r that returned, in order
ReturnedCallsOfRound(r) ==
    LET Ok(e) == e.round = r /\ ~e.raised
    IN  SelectSeq(tool_log, Ok)

\* C11: within a round the tool_use blocks of the response are executed one
\* at a time in the order they appear, and the round's tool-result list has
\* exactly one entry per call that returned, in the same order, each with
\* the tool_use_id of its block and the text the call returned as content.
C11_ResultsFollowBlocks ==
    pc \in {"execute_tools", "tool_failure"} =>
        LET blocks == ToolUseBlocks(response.content)
            seen == ToolUseBlocks(SubSeq(response.content, 1,
                       IF block_idx > Len(response.content)
                       THEN Len(response.content) ELSE block_idx - 1))
            es == ToolCallsOfRound(current_round)
            ok == ReturnedCallsOfRound(current_round)
        IN  /\ Len(es) <= Len(blocks)
            /\ \A i \in 1..Len(es) :
                  /\ es[i].id = blocks[i].id
                  /\ es[i].name = blocks[i].name
                  /\ es[i].raised => i = Len(es)
            /\ ~result.failed => Len(es) = Len(seen)
            /\ result.tool_results =
                  [i \in 1..Len(ok) |->
                     [type |-> "tool_result", tool_use_id |-> ok[i].id,
                      content |-> ok[i].value]]
            /\ result.executed_tools = [i \in 1..Len(ok) |-> ok[i].name]

\* Both tool_use blocks of a response were executed and returned
C11_Witness ==
    /\ pc = "execute_tools"
    /\ Len(result.tool_results) = 2
    /\ result.tool_results[1].tool_use_id = response.content[1].id
    /\ result.tool_results[2].tool_use_id = response.content[2].id
    /\ response.content[1].name # response.content[2].name

\* C12: without tools (None or []) or without a tool manager, exactly one
\* LLM call is made; its message list is the single user message with the
\* query, its request carries no tool definitions, no tool is executed, and
\* the response's text is returned whatever the stop reason.
C12_SimplePath ==
    ~ToolPath =>
        /\ tool_log = << >>
        /\ pc = "start" => calls = << >>
        /\ pc # "start" =>
              /\ pc = "done"
              /\ Len(calls) = 1
              /\ calls[1].messages =
                    <<[role |-> "user", content |-> [text |-> query]]>>
              /\ calls[1].tools = None
              /\ calls[1].tool_choice = None
              /\ (~llm_log[1].raised /\ llm_log[1].text.kind = "returned")
                    => outcome = Returned(LLMText(1))

\* Tools were passed without a tool manager, the one response had the stop
\* reason tool_use, and its text was returned
C12_Witness ==
    /\ Truthy(tools)
    /\ ~tool_manager
    /\ pc = "done"
    /\ Len(calls) = 1
    /\ llm_log[1].stop_reason = "tool_use"
    /\ outcome = Returned(LLMText(1))

\* The provenance of one search result: one source per (course, lesson),
\* none when the store reported an error or found nothing
Provenance(results) ==
    IF Truthy(results.error) \/ is_empty(results)
    THEN << >>
    ELSE _format_results(results).last_sources

\* C13: after every execute of the content search tool, whatever its outcome
\* (results, no result, store error), last_sources is the provenance of that
\* call alone, never what an earlier call left.
C13_SourcesOfLatestCall ==
    tcall.op = "execute" =>
        last_sources[tcall.tool] = Provenance(tcall.results)

\* The (course_title, lesson_number) pair of the i-th result
Pair(results, i) ==
    <<results.metadata[i].course_title, results.metadata[i].lesson_number>>

\* The positions of the results whose pair occurs there for the first time,
\* in increasing order
FirstOccurrences(results) ==
    LET First(i) == \A j \in 1..(i - 1) : Pair(results, j) # Pair(results, i)
    IN  SelectSeq([i \in 1..Len(results.metadata) |-> i], First)

\* C14: a search returning N chunks that span K unique
\* (course_title, lesson_number) pairs leaves exactly K entries in
\* last_sources, one per pair, in the order the pairs first occur.
C14_OneSourcePerPair ==
    (tcall.op = "execute" /\ ~Truthy(tcall.results.error)
        /\ ~is_empty(tcall.results)) =>
        LET firsts == FirstOccurrences(tcall.results)
            pairs == { Pair(tcall.results, i) :
                         i \in 1..Len(tcall.results.metadata) }
            sources == last_sources[tcall.tool]
        IN  /\ Len(sources) = Cardinality(pairs)
            /\ Len(sources) = Len(firsts)
            /\ \A k \in 1..Len(firsts) :
                  sources[k] = SourceEntry(Pair(tcall.results, firsts[k])[1],
                                           Pair(tcall.results, firsts[k])[2])

\* Two chunks of one lesson: one source
C14_Witness ==
    /\ tcall.op = "execute"
    /\ Len(tcall.results.documents) = 2
    /\ tcall.results.metadata[1] = tcall.results.metadata[2]
    /\ Len(last_sources[SearchTool]) = 1

\* C15: with empty results the tool returns 'No relevant content found'
\* followed by " in course '<name>'" whenever a course_name (a non-empty
\* name) was supplied and by ' in lesson <n>' whenever lesson_number was
\* supplied, for every supplied integer n, in that order.
C15_EmptyResultsMessage ==
    (tcall.op = "execute" /\ ~Truthy(tcall.results.error)
        /\ is_empty(tcall.results)) =>
        IsPrefix(<<"No relevant content found">>
                 \o (IF Truthy(tcall.course_name)
                     THEN <<" in course '">> \o tcall.course_name.v \o <<"'">>
                     ELSE << >>)
                 \o (IF ~tcall.lesson_number.isNone
                     THEN <<" in lesson ">> \o Str(tcall.lesson_number.v)
                     ELSE << >>),
                 tcall.text)

\* The name of the tool call is not registered with the manager
Unregistered(e) == e.name \notin Names(manager_tools[TheManager])

\* Round r ended with its results on the transcript
Completed(r) ==
    r < current_round \/ (r = current_round /\ pc = "process_rounds")

\* The tool-result entry of tool call e
EntryOf(e) ==
    [type |-> "tool_result", tool_use_id |-> e.id, content |-> e.value]

\* The tool-result entries on the transcript
EntriesOnTranscript ==
    UNION { { messages[k].content.list[j] :
                j \in 1..Len(messages[k].content.list) } :
              k \in { k \in 1..Len(messages) :
                        /\ messages[k].role = "user"
                        /\ "list" \in DOMAIN messages[k].content } }

\* C16: execute_tool on a name that is not registered returns the text
\* "Tool '<name>' not found" and never raises; in generate_response such a
\* call does not fail the round: the text is the content of the call's
\* tool-result entry, the round fails only when a call of a registered tool
\* raises, and a round that completes leaves the entry on the transcript of
\* the next LLM call.
C16_UnregisteredToolIsNotAFailure ==
    /\ \A i \in 1..Len(tool_log) :
          Unregistered(tool_log[i]) =>
            /\ ~tool_log[i].raised
            /\ tool_log[i].value =
                  <<"Tool '", tool_log[i].name, "' not found">>
            /\ (tool_log[i].round = current_round
                  /\ pc \in {"execute_tools", "tool_failure"})
                 => \E j \in 1..Len(result.tool_results) :
                       result.tool_results[j] = EntryOf(tool_log[i])
            /\ Completed(tool_log[i].round)
                 => EntryOf(tool_log[i]) \in EntriesOnTranscript
    /\ result.failed =>
          /\ tool_log[Len(tool_log)].raised
          /\ ~Unregistered(tool_log[Len(tool_log)])
    /\ (pc = "execute_tools" /\ block_idx > Len(response.content)
          /\ \A i \in 1..Len(tool_log) :
                tool_log[i].round = current_round
                  => Unregistered(tool_log[i]))
         => ~result.failed

\* Round 1 called a tool the manager does not know, its text went on the
\* transcript, and the second round's LLM call was made with it
C16_Witness ==
    /\ Len(calls) >= 2
    /\ calls[2].kind = "round"
    /\ Len(tool_log) >= 1
    /\ Unregistered(tool_log[1])
    /\ tool_log[1].name = "get_course_outline"
    /\ Len(calls[2].messages) = 3
    /\ calls[2].messages[3].content.list[1].content =
          <<"Tool '", "get_course_outline", "' not found">>

\* Caller c is inside get_last_sources or about to call it
Reading(c) == callers[c].pc \in { "generating", "reading", "returning" }

\* A step of caller c's get_last_sources
GetStep(c) ==
    /\ Reading(c)
    /\ callers'[c] # callers[c]
    /\ tcall'.op = "get_last_sources"

\* The step in which caller c's get_last_sources returns
ReadStep(c) == GetStep(c) /\ callers'[c].pc = "read"

\* Caller c is inside reset_sources or about to call it
Resetting(c) == callers[c].pc \in { "read", "resetting" }

\* A step of caller c's reset_sources: one iteration of its loop
ResetStep(c) ==
    /\ Resetting(c)
    /\ callers'[c] # callers[c]
    /\ callers'[c].pc \in { "resetting", "done" }

\* The positions of the manager's tools that have non-empty last_sources
WithSources(tls, ls) ==
    { i \in 1..Len(tls) :
        tls[i].tool \in TrackingTools /\ ls[tls[i].tool] # << >> }

\* C17: get_last_sources returns the last_sources of the first registered
\* tool, in registration order, whose last_sources is non-empty, and the
\* empty list when there is none; it changes no tool's state. The call is
\* one that no other call on the manager runs into (the queries are
\* serialized); that it assigns nothing holds for every call.
C17_FirstToolWithSources ==
    [][\A c \in Callers :
         /\ GetStep(c) =>
              /\ last_sources' = last_sources
              /\ manager_tools' = manager_tools
         /\ (serialized /\ ReadStep(c)) =>
              LET tls == manager_tools[callers[c].manager]
                  having == WithSources(tls, last_sources)
              IN  callers'[c].sources =
                     IF having = {} THEN << >>
                     ELSE last_sources[
                            tls[CHOOSE i \in having :
                                  \A j \in having : i <= j].tool]]_vars

\* Two registered tools have different sources and the caller was given
\* those of the tool registered first
C17_Witness ==
    \E c \in Callers :
        LET tls == manager_tools[callers[c].manager]
        IN  /\ serialized
            /\ callers[c].pc = "read"
            /\ Len(tls) = 3
            /\ tls[1].tool = OtherSearchTool
            /\ last_sources[SearchTool] # << >>
            /\ last_sources[OtherSearchTool] # << >>
            /\ last_sources[SearchTool] # last_sources[OtherSearchTool]
            /\ callers[c].sources = last_sources[OtherSearchTool]

\* C18: after reset_sources every source-tracking tool of the manager has
\* an empty last_sources and get_last_sources returns the empty list; a
\* tool's last_sources stays empty until a later search of that tool
\* returns at least one result; reset_sources leaves the registered tools
\* as they are. Every iteration of reset_sources clears its tool, and when
\* no other call on the manager runs meanwhile (the queries are
\* serialized) all the tools are empty when it returns.
C18_ResetClearsUntilNextResult ==
    [][/\ \A c \in Callers :
            ResetStep(c) =>
              LET tls == manager_tools[callers[c].manager]
                  i == IF callers[c].pc = "read" THEN 1 ELSE callers[c].i
              IN  /\ tls[i].tool \in TrackingTools =>
                        last_sources'[tls[i].tool] = << >>
                  /\ manager_tools' = manager_tools
                  /\ (serialized /\ callers'[c].pc = "done") =>
                        /\ \A t \in Tracked(tls) : last_sources'[t] = << >>
                        /\ WithSources(tls, last_sources') = {}
       /\ \A t \in TrackingTools :
            (last_sources[t] = << >> /\ last_sources'[t] # << >>) =>
              /\ tcall'.op = "execute"
              /\ tcall'.tool = t
              /\ ~Truthy(tcall'.results.error)
              /\ Len(tcall'.results.documents) >= 1]_vars

\* A caller that was given sources has cleared them
C18_Witness ==
    \E c \in Callers :
        /\ serialized
        /\ callers[c].pc = "done"
        /\ callers[c].sources # << >>
        /\ tcall.op = "reset_sources"
        /\ \A t \in Tracked(manager_tools[callers[c].manager]) :
              last_sources[t] = << >>

\* Caller c has read the sources of its query
HasRead(c) == callers[c].pc \in { "read", "resetting", "done" }

\* C19: when the queries are serialized and each reads the sources with
\* get_last_sources and then clears them with reset_sources, the sources
\* reported for a query were assigned by a search of that query; a query
\* none of whose searches returned results, or that ran no search, reports
\* the empty list.
C19_SourcesOfOwnQuery ==
    serialized =>
        \A c \in Callers :
            HasRead(c) =>
                /\ callers[c].sources # << >> => callers[c].from = c
                /\ ~callers[c].found => callers[c].sources = << >>

\* The first query reported sources; the second, on the same manager, ran
\* searches that found nothing and reported none
C19_Witness ==
    \E c, d \in Callers :
        /\ serialized
        /\ callers[c].manager = callers[d].manager
        /\ callers[c].pc = "done"
        /\ callers[c].sources # << >>
        /\ callers[d].pc = "read"
        /\ callers[d].executions > 0
        /\ ~callers[d].found
        /\ callers[d].sources = << >>

\* The tools registered with a manager
ToolsOf(m) == { manager_tools[m][i].tool : i \in 1..Len(manager_tools[m]) }

\* Every caller has a manager and tools of its own
Isolated ==
    \A c, d \in Callers :
        c # d =>
            /\ callers[c].manager # callers[d].manager
            /\ ToolsOf(callers[c].manager) \cap ToolsOf(callers[d].manager)
                 = {}

\* Caller c was given sources that a search of another query assigned
CrossRead(c) ==
    HasRead(c) /\ callers[c].sources # << >> /\ callers[c].from # c

\* Caller c's search returned results, yet c was given no sources
LostOwn(c) ==
    HasRead(c) /\ callers[c].found /\ callers[c].sources = << >>

\* C20: two queries that share one manager and tool and interleave their
\* execute_tool, get_last_sources and reset_sources calls can reach a state
\* where one reads the sources the other's search wrote (C20_Witness) or
\* finds its own cleared; no such state is reachable when the queries are
\* serialized or when each has its own manager and tools.
C20_NoInterferenceUnlessShared ==
    (serialized \/ Isolated) =>
        \A c \in Callers : ~CrossRead(c) /\ ~LostOwn(c)

\* Interleaved on a shared manager, a query whose own searches found
\* nothing was given the sources of the other query
C20_Witness ==
    \E c, d \in Callers :
        /\ ~serialized
        /\ c # d
        /\ callers[c].manager = callers[d].manager
        /\ CrossRead(c)
        /\ ~callers[c].found
        /\ callers[c].from = d

\* Interleaved on a shared manager, a query whose search returned results
\* found its sources cleared by the other query
C20_WitnessCleared ==
    \E c \in Callers : ~serialized /\ LostOwn(c)

\* Interleaved on a shared manager, get_last_sources had passed the first
\* tool while it was empty and gave the caller the list of the second, the
\* first holding sources by then
C20_WitnessSecondTool ==
    \E c \in Callers :
        LET tls == manager_tools[callers[c].manager]
        IN  /\ ~serialized
            /\ callers[c].pc = "read"
            /\ Len(tls) = 2
            /\ tls[2].tool \in TrackingTools
            /\ last_sources[tls[1].tool] # << >>
            /\ callers[c].sources = last_sources[tls[2].tool]
            /\ callers[c].sources # last_sources[tls[1].tool]

\* Interleaved on a shared manager, each caller was given the sources the
\* other's search had assigned: a get_last_sources ran between two
\* iterations of the other caller's reset_sources
C20_WitnessCrossed ==
    /\ ~serialized
    /\ callers[1].sources # << >> /\ callers[1].from = 2
    /\ callers[2].sources # << >> /\ callers[2].from = 1

\* C21: when the result of store.search has its error set, the content
\* search tool returns exactly that error string, whatever course_name and
\* lesson_number it was called with.
C21_StoreErrorVerbatim ==
    (tcall.op = "execute" /\ ~tcall.results.error.isNone) =>
        tcall.text = tcall.results.error.v

\* A search with both filters met a store error and returned it
C21_Witness ==
    /\ tcall.op = "execute"
    /\ ~tcall.results.error.isNone
    /\ Truthy(tcall.course_name)
    /\ tcall.lesson_number = Some(1)
    /\ tcall.text \in SearchErrors

\* C22: when VectorStore.search is called with a course_name that the
\* catalog cannot resolve, it returns a SearchResults whose error is
\* "No course found matching '<name>'" and whose three sequences are empty,
\* it makes no query against the content collection, and the content
\* search tool returns that same string.
C22_UnresolvedShortCircuit ==
    (/\ store_call.op = "search"
     /\ Truthy(store_call.course_name)
     /\ store_call.resolution.isNone) =>
        LET msg == <<"No course found matching '">>
                   \o store_call.course_name.v \o <<"'">>
        IN  /\ store_call.results.error = Some(msg)
            /\ store_call.results.documents = << >>
            /\ store_call.results.metadata = << >>
            /\ store_call.results.distances = << >>
            /\ store_call.queries = 0
            /\ tcall.op = "execute"
            /\ tcall.text = msg

\* An unresolved name was searched for while the content collection had
\* matches to give, and the tool answered with the message
C22_Witness ==
    /\ store_call.op = "search"
    /\ store_call.course_name = Some(<<"Course A">>)
    /\ store_call.lesson_number = Some(1)
    /\ store_call.resolution.isNone
    /\ ~store_call.met.raised
    /\ Len(store_call.met.chroma_results.documents[1]) > 0
    /\ tcall.text = <<"No course found matching '", "Course A", "'">>

\* C23: the filter of the content query is none when neither filter is
\* given, {course_title = resolved title} when only the course is given,
\* {lesson_number = n} when only the lesson is given, and the AND of the
\* two when both are given, for every resolved title and lesson number.
C23_FilterByCase ==
    (store_call.op = "search" /\ store_call.queries = 1) =>
        LET course == Truthy(store_call.course_name)
            lesson == ~store_call.lesson_number.isNone
            by_course == [course_title |-> store_call.resolution.v]
            by_lesson == [lesson_number |-> store_call.lesson_number.v]
        IN  /\ (~course /\ ~lesson) => store_call.filter = None
            /\ (course /\ ~lesson) => store_call.filter = Some(by_course)
            /\ (~course /\ lesson) => store_call.filter = Some(by_lesson)
            /\ (course /\ lesson) =>
                  store_call.filter = Some([and |-> <<by_course, by_lesson>>])

\* A search with both filters, the name resolving to another title and the
\* lesson being lesson 0, queried the content collection
C23_Witness ==
    /\ store_call.op = "search"
    /\ store_call.queries = 1
    /\ store_call.course_name = Some(<<"Course A">>)
    /\ store_call.resolution = Some(<<"Course B">>)
    /\ store_call.lesson_number = Some(0)
    /\ store_call.filter =
          Some([and |-> << [course_title |-> <<"Course B">>],
                           [lesson_number |-> 0] >>])

\* C24: every SearchResults that search produces has documents, metadata
\* and distances of equal length when its error is unset and all three
\* empty when its error is set; is_empty() holds exactly when documents is
\* empty; and an exception while the filter is built or the content
\* collection is queried gives the error "Search error: <message>" with
\* empty sequences.
C24_SearchResultsWellFormed ==
    store_call.op = "search" =>
        LET r == store_call.results
            empty == /\ r.documents = << >>
                     /\ r.metadata = << >>
                     /\ r.distances = << >>
        IN  /\ r.error.isNone =>
                  /\ Len(r.documents) = Len(r.metadata)
                  /\ Len(r.metadata) = Len(r.distances)
            /\ ~r.error.isNone => empty
            /\ is_empty(r) <=> r.documents = << >>
            /\ (/\ store_call.met.raised
                /\ ~(/\ Truthy(store_call.course_name)
                     /\ store_call.resolution.isNone)) =>
                  /\ r.error = Some(<<"Search error: ">>
                                    \o store_call.met.error)
                  /\ empty

\* A search returned as many documents as the collection may give
C24_Witness ==
    /\ store_call.op = "search"
    /\ store_call.results.error.isNone
    /\ Len(store_call.results.documents) = MaxDocs
    /\ Len(store_call.results.distances) = MaxDocs

\* The metadata the latest outline call read and the parse of its lessons
OutlineRead ==
    /\ outline_call.op = "execute"
    /\ ~outline_call.resolution.raised
    /\ Truthy(outline_call.resolution.title)
    /\ ~outline_call.got.raised
    /\ Truthy(outline_call.got.results)
    /\ Len(outline_call.got.results.v.metadatas) > 0

\* C25: the outline tool's execute never propagates an exception: an
\* exception raised while the course name is resolved, the catalog record
\* is fetched, or the lessons are parsed and rendered gives the text
\* "Error retrieving course outline: <message>".
C25_OutlineNeverPropagates ==
    outline_call.op = "execute" =>
        /\ ~outline_call.raised
        /\ outline_call.resolution.raised =>
              outline_call.text = <<"Error retrieving course outline: ">>
                                  \o outline_call.resolution.error
        /\ (~outline_call.resolution.raised
            /\ Truthy(outline_call.resolution.title)
            /\ outline_call.got.raised) =>
              outline_call.text = <<"Error retrieving course outline: ">>
                                  \o outline_call.got.error
        /\ (/\ OutlineRead
            /\ outline_call.got.results.v.metadatas[1].lessons_json
                   = Some(<<"not json">>)) =>
              outline_call.text = <<"Error retrieving course outline: ">>
                                  \o JSONDecodeError

\* C26: the outline tool returns "No course found matching '<title>'"
\* when the resolution yields no title, and fetches no catalog record in
\* that call; it returns "Course metadata not found for '<resolved>'" when
\* the title resolves and the catalog has no record for it.
C26_OutlineNotFound ==
    (outline_call.op = "execute" /\ ~outline_call.resolution.raised) =>
        /\ outline_call.resolution.title.isNone =>
              /\ outline_call.text = <<"No course found matching '">>
                                     \o outline_call.course_title
                                     \o <<"'">>
              /\ outline_call.fetches = 0
        /\ (/\ Truthy(outline_call.resolution.title)
            /\ ~outline_call.got.raised
            /\ \/ outline_call.got.results.isNone
               \/ outline_call.got.results.v.metadatas = << >>) =>
              outline_call.text = <<"Course metadata not found for '">>
                                  \o outline_call.resolution.title.v
                                  \o <<"'">>

\* With records in the catalog, a title that resolves to nothing was asked
\* for and no record was fetched
C26_Witness ==
    /\ outline_call.op = "execute"
    /\ ~outline_call.resolution.raised
    /\ outline_call.resolution.title.isNone
    /\ course_catalog # EmptyCatalog
    /\ outline_call.fetches = 0
    /\ outline_call.text = <<"No course found matching '", "MCP", "'">>

\* The latest outline call resolved to course c's title and read the
\* record add_course_metadata(c) stored
ReadBack(c) ==
    /\ OutlineRead
    /\ outline_call.resolution.title.v = c.title
    /\ course_catalog[c.title] = Some(CourseMetadata(c))
    /\ outline_call.got.results.v.metadatas[1] = CourseMetadata(c)

\* The outline of course c, line by line
OutlineOf(c) ==
    Join(<< <<"**Course:** ">> \o c.title,
            <<"**Course Link:** ">> \o c.course_link,
            <<"**Lessons:**">> >>
         \o [i \in 1..Len(c.lessons) |->
                <<"  ", ToString(c.lessons[i].lesson_number), ". ">>
                \o c.lessons[i].title],
         <<"\n">>)

\* C27: after add_course_metadata(c), the outline of c shows c's title,
\* its link and one line per lesson with the lesson's number and title, in
\* the order of c's lessons; when c has no lesson the outline ends with the
\* line "  No lessons found".
C27_OutlineRoundTrip ==
    \A c \in Courses :
        ReadBack(c) =>
            IF Len(c.lessons) > 0
            THEN outline_call.text = OutlineOf(c)
            ELSE outline_call.text =
                     OutlineOf(c) \o <<"\n", "  No lessons found">>

\* A course whose lessons are not in ascending order was stored and its
\* outline read back
C27_Witness ==
    \E c \in Courses :
        /\ ReadBack(c)
        /\ Len(c.lessons) = MaxLessons
        /\ c.lessons[1].lesson_number > c.lessons[MaxLessons].lesson_number
        /\ ~outline_call.raised

\* C28: register_tool on a tool whose definition has no name, missing or
\* empty, fails with the configuration error and leaves the registry as it
\* was; otherwise the tool is afterwards the one found under the name of its
\* definition, and get_tool_definitions has exactly one definition for
\* each registered name.
C28_Registration ==
    [][tcall'.op = "register_tool" =>
         LET m == tcall'.manager
             t == tcall'.tool
             defs == get_tool_definitions(manager_tools'[m])
             names == Names(manager_tools[m]) \cup { ToolDefName(t) }
         IN  IF t \in { EmptyNameTool, NamelessTool }
             THEN /\ tcall'.raised
                  /\ tcall'.text =
                        <<"Tool must have a 'name' in its definition">>
                  /\ manager_tools' = manager_tools
             ELSE /\ ~tcall'.raised
                  /\ Lookup(manager_tools'[m], ToolDefName(t)) = t
                  /\ Names(manager_tools'[m]) = names
                  /\ Len(defs) = Cardinality(names)
                  /\ \A n \in names :
                        Cardinality({ i \in 1..Len(defs) : defs[i] = n }) = 1
      ]_vars

\* A tool without a name was refused by a manager that has two tools, one
\* of which took the place of another under the same name
C28_Witness ==
    /\ tcall.op = "register_tool"
    /\ tcall.tool = NamelessTool
    /\ tcall.raised
    /\ Len(manager_tools[tcall.manager]) = 2
    /\ manager_tools[tcall.manager][1] =
          [name |-> "search_course_content", tool |-> SameNameTool]

\* The call ends, by a return or by an exception that leaves it
Terminates == <>(pc = "done")

\* Round processing is entered at most max_rounds + 1 times
EntriesBounded == current_round <= max_rounds + 1

\* C29: generate_response always terminates: when every LLM call and every
\* tool call returns or raises in the end, it reaches a return after at most
\* 3 entries into round processing, whatever the LLM answers.
C29_ReachesReturn ==
    <>(pc = "done" /\ outcome.kind = "returned" /\ current_round <= 3)

\* The LLM calls made so far that were given the tools
ToolPermittedCalls(cs) == { i \in 1..Len(cs) : ~cs[i].tools.isNone }

\* C30: the round counter starts at 0 and goes up by exactly one on every
\* entry into round processing and at no other step, so it never
\* decreases; every LLM call that is given the tools is made with the
\* counter at 1 or 2, the k-th such call with the counter at k.
C30_RoundCounter ==
    [][/\ pc = "start" => current_round = 0
       /\ current_round' = IF pc = "process_rounds" THEN current_round + 1
                           ELSE current_round
       /\ (/\ Len(calls') = Len(calls) + 1
           /\ ~calls'[Len(calls')].tools.isNone) =>
             /\ current_round' \in { 1, 2 }
             /\ current_round' = Cardinality(ToolPermittedCalls(calls'))
      ]_vars

\* Two calls were given the tools and round processing was entered a
\* third time
C30_Witness ==
    /\ Cardinality(ToolPermittedCalls(calls)) = 2
    /\ \A i \in ToolPermittedCalls(calls) : calls[i].kind = "round"
    /\ Len(calls) = 3
    /\ current_round = 3

\* C31: the tool-failure path is taken exactly when execute_tool raises. A
\* call that returns an error text (the store's error string, a "No course
\* found" text, a "Tool ... not found" text) is a successful call: its text
\* is the content of its tool-result entry, the other tool_use blocks of
\* the round are executed, and the round ends on the transcript so that
\* the next round proceeds.
C31_FailureIffRaise ==
    /\ result.failed <=> SomeToolRaised
    /\ (pc = "tool_failure" \/ \E i \in 1..Len(calls) :
                                  calls[i].kind = "fallback")
         <=> (SomeToolRaised /\ ~(pc = "execute_tools"))
    /\ (tcall.op = "execute" /\ Truthy(tcall.results.error)) =>
          /\ ~tool_log[Len(tool_log)].raised
          /\ tool_log[Len(tool_log)].value = tcall.results.error.v
    /\ \A i \in 1..Len(tool_log) :
          ~tool_log[i].raised =>
            /\ (tool_log[i].round = current_round
                  /\ pc \in {"execute_tools", "tool_failure"})
                 => \E j \in 1..Len(result.tool_results) :
                       result.tool_results[j] = EntryOf(tool_log[i])
            /\ Completed(tool_log[i].round)
                 => EntryOf(tool_log[i]) \in EntriesOnTranscript
    /\ \A r \in 1..Len(round_responses) :
          (Completed(r) \/ (r = current_round /\ pc = "execute_tools"
                            /\ block_idx > Len(response.content)
                            /\ ~SomeToolRaised)) =>
            Len(ToolCallsOfRound(r))
              = Len(ToolUseBlocks(round_responses[r].content))
    /\ (current_round >= 2 /\ ~SomeToolRaised) =>
          /\ Len(calls) >= 2
          /\ calls[2].kind = "round"

\* Round 1 made two searches, one meeting a store error and one an unknown
\* course; both texts are on the transcript of the second round's call
C31_Witness ==
    /\ Len(calls) >= 2
    /\ calls[2].kind = "round"
    /\ Len(calls[2].messages) = 3
    /\ Len(calls[2].messages[3].content.list) = 2
    /\ calls[2].messages[3].content.list[1].content \in SearchErrors
    /\ calls[2].messages[3].content.list[2].content =
          <<"No course found matching '", "MCP", "'">>

\* C32: at every LLM call of the tool path (round, finalize or fallback)
\* the transcript begins with the user message holding the original query,
\* its roles alternate user/assistant, and it ends with a user message,
\* whatever the LLM answered before.
C32_TranscriptAlternates ==
    \A i \in 1..Len(calls) :
        calls[i].kind \in { "round", "finalize", "fallback" } =>
            LET msgs == calls[i].messages
            IN  /\ Len(msgs) >= 1
                /\ msgs[1] = [role |-> "user", content |-> [text |-> query]]
                /\ \A j \in 1..Len(msgs) :
                      msgs[j].role = IF j % 2 = 1 THEN "user"
                                     ELSE "assistant"
                /\ msgs[Len(msgs)].role = "user"

\* The messages a completed round r put on the transcript
MessagesOfRound(r) ==
    << AssistantMessage(round_responses[r].content) >>
    \o (IF RoundResults(r) # << >>
        THEN << ToolResultsMessage(RoundResults(r)) >> ELSE << >>)

\* C33: the transcript only grows within a query: the message list of an
\* LLM call has the message list of every earlier call as a prefix, and
\* the finalize call after two tool rounds is made with the query, then
\* round 1's tool-use message and results, then round 2's.
C33_TranscriptAppendOnly ==
    /\ \A i, j \in 1..Len(calls) :
          i < j => IsPrefix(calls[i].messages, calls[j].messages)
    /\ \A i \in 1..Len(calls) :
          calls[i].kind = "finalize" =>
            calls[i].messages =
              << [role |-> "user", content |-> [text |-> query]] >>
              \o MessagesOfRound(1) \o MessagesOfRound(2)

\* The finalize call was made after two rounds that each executed a tool
C33_Witness ==
    /\ Len(calls) = 3
    /\ calls[3].kind = "finalize"
    /\ Len(calls[3].messages) = 5
    /\ Len(calls[2].messages) = 3
    /\ calls[3].messages[3].content.list # calls[3].messages[5].content.list

\* C34: in every ToolExecutionResult tool_results and executed_tools have
\* the same length and correspond position by position (the j-th entry
\* carries the id, and the j-th name is the name, of the j-th executed
\* tool_use block); failed holds exactly when error_message is set; and
\* when failed, the lists hold exactly the calls made before the raising
\* one, fewer than the round's tool_use blocks.
C34_ToolExecutionResult ==
    /\ Len(result.tool_results) = Len(result.executed_tools)
    /\ result.failed <=> ~result.error_message.isNone
    /\ pc \in {"execute_tools", "tool_failure"} =>
          LET blocks == ToolUseBlocks(response.content)
              n == Len(result.tool_results)
          IN  /\ n <= Len(blocks)
              /\ \A j \in 1..n :
                    /\ result.tool_results[j].type = "tool_result"
                    /\ result.tool_results[j].tool_use_id = blocks[j].id
                    /\ result.executed_tools[j] = blocks[j].name
              /\ result.failed =>
                    /\ n < Len(blocks)
                    /\ n = Len(ReturnedCallsOfRound(current_round))
                    /\ tool_log[Len(tool_log)].raised
                    /\ tool_log[Len(tool_log)].id = blocks[n + 1].id
                    /\ Len(ToolCallsOfRound(current_round)) = n + 1

\* The second tool call of a round raised after the first had returned
C34_Witness ==
    /\ pc = "tool_failure"
    /\ result.failed
    /\ Len(result.tool_results) = 1
    /\ Len(result.executed_tools) = 1
    /\ Len(ToolUseBlocks(response.content)) = 2

\* The sources get_last_sources gives for the manager of the query
SourcesOfQuery ==
    get_last_sources(manager_tools[TheManager], last_sources)

\* The text and the provenance of every search result with documents
Renderings ==
    { _format_results(r) :
        r \in { r \in StoreResults : ~is_empty(r) /\ r.error.isNone } }

\* Tool call e returned the rendering of a search result whose provenance
\* is the list srcs
Rendered(e, srcs) ==
    /\ ~e.raised
    /\ [text |-> e.value, last_sources |-> srcs] \in Renderings

\* C35: the sources get_last_sources gives after generate_response has
\* returned stem from a tool execution whose result is on the transcript
\* shown to the LLM; a search of a round that failed afterwards, whose
\* result was not put on the transcript, gives no sources.
C35_SourcesFromTranscript ==
    (pc = "done" /\ SourcesOfQuery # << >>) =>
        \E i \in 1..Len(tool_log) :
            /\ Rendered(tool_log[i], SourcesOfQuery)
            /\ EntryOf(tool_log[i]) \in EntriesOnTranscript

\* The texts a search with results returns
RenderedTexts == { f.text : f \in Renderings }

\* The executions of the content search tool in the query, and those that
\* returned results
SearchExecutions ==
    { i \in 1..Len(tool_log) : tool_log[i].name = "search_course_content" }

WithResults ==
    { i \in SearchExecutions :
        ~tool_log[i].raised /\ tool_log[i].value \in RenderedTexts }

\* C36: when the content search tool is executed more than once in a query
\* and every execution returns results, the sources reported after the
\* query are exactly those of the last execution: the sources of earlier
\* executions are neither kept nor merged in.
C36_SourcesOfLastExecution ==
    (/\ pc = "done"
     /\ Cardinality(SearchExecutions) >= 2
     /\ WithResults = SearchExecutions) =>
        LET last == CHOOSE i \in SearchExecutions :
                        \A j \in SearchExecutions : j <= i
        IN  Rendered(tool_log[last], SourcesOfQuery)

\* Round 1 searched and found a chunk of one course, round 2 searched and
\* found a chunk of another, and the query has ended
C36_Witness ==
    /\ pc = "done"
    /\ Cardinality(SearchExecutions) = 2
    /\ WithResults = SearchExecutions
    /\ tool_log[1].round = 1
    /\ tool_log[2].round = 2
    /\ tool_log[1].value # tool_log[2].value
    /\ Len(SourcesOfQuery) = 1

\* The latest call was a search that found documents
SearchFound ==
    /\ tcall.op = "execute"
    /\ tcall.results.error.isNone
    /\ Len(tcall.results.documents) > 0

\* The block of the i-th (document, metadata) pair of the latest search
BlockOf(i) ==
    LET meta == tcall.results.metadata[i]
    IN  <<"[">> \o meta.course_title
        \o (IF meta.lesson_number.isNone THEN << >>
            ELSE <<" - Lesson ", ToString(meta.lesson_number.v)>>)
        \o <<"]", "\n">> \o tcall.results.documents[i]

\* C37: a search result with documents is rendered as one block per
\* (document, metadata) pair in result order; a block is the header
\* "[<course_title>", then " - Lesson <n>" exactly when the metadata has a
\* lesson number (lesson 0 included), then "]", a newline and the document
\* text; consecutive blocks are separated by a blank line.
C37_Rendering ==
    SearchFound =>
        tcall.text = Join([i \in 1..Len(tcall.results.documents) |->
                             BlockOf(i)], <<"\n\n">>)

\* A search found a chunk of lesson 0 and a chunk without a lesson number
C37_Witness ==
    /\ SearchFound
    /\ Len(tcall.results.documents) = 2
    /\ tcall.results.metadata[1].lesson_number = Some(0)
    /\ tcall.results.metadata[2].lesson_number = None
    /\ tcall.text = <<"[", "Course A", " - Lesson ", "0", "]", "\n",
                      "chunk ", "1", "\n\n",
                      "[", "Course A", "]", "\n", "chunk ", "2">>

\* The (course_title, lesson_number) pairs of the latest search's results
\* that have a lesson number
LessonPairs ==
    { <<tcall.results.metadata[i].course_title,
        tcall.results.metadata[i].lesson_number.v>> :
        i \in { j \in 1..Len(tcall.results.metadata) :
                   ~tcall.results.metadata[j].lesson_number.isNone } }

\* C38: while rendering results the tool calls get_lesson_link exactly once
\* for each unique (course_title, lesson_number) pair that has a lesson
\* number and never for a result without one; the source of a result
\* without a lesson number has the course title alone as its text and a
\* null link.
C38_LinkLookups ==
    SearchFound =>
        /\ \A i \in 1..Len(tcall.link_calls) : tcall.link_calls[i] \in LessonPairs
        /\ \A p \in LessonPairs :
              Cardinality({ i \in 1..Len(tcall.link_calls) :
                              tcall.link_calls[i] = p }) = 1
        /\ \A i \in 1..Len(tcall.results.metadata) :
              tcall.results.metadata[i].lesson_number.isNone =>
                  /\ \E k \in 1..Len(last_sources[tcall.tool]) :
                        last_sources[tcall.tool][k] =
                            [text |-> tcall.results.metadata[i].course_title,
                             link |-> None]
                  /\ \A k \in 1..Len(last_sources[tcall.tool]) :
                        last_sources[tcall.tool][k].text =
                            tcall.results.metadata[i].course_title
                        => last_sources[tcall.tool][k].link.isNone

\* Two chunks of lesson 0 of one course: one lookup, for lesson 0
C38_Witness ==
    /\ SearchFound
    /\ Len(tcall.results.documents) = 2
    /\ tcall.results.metadata[1].lesson_number = Some(0)
    /\ tcall.results.metadata[2] = tcall.results.metadata[1]
    /\ tcall.link_calls = << <<tcall.results.metadata[1].course_title, 0>> >>

\* A chunk without a lesson number: no lookup, a source with a null link
C38_WitnessNoLesson ==
    /\ SearchFound
    /\ Len(tcall.results.documents) = 1
    /\ tcall.results.metadata[1].lesson_number = None
    /\ tcall.link_calls = << >>
    /\ last_sources[tcall.tool] = << [text |-> <<"Course A">>, link |-> None] >>

\* The prior conversation of the query is a non-empty text
HasHistory ==
    /\ ~conversation_history.isNone
    /\ conversation_history.v # << >>

\* The kinds of the LLM calls issued for the query so far
KindsCalled == { calls[i].kind : i \in 1..Len(calls) }

\* C39: a non-empty prior conversation is part of the system text of every
\* LLM call issued for the query (simple path, round 1, round 2, finalize,
\* fallback), right after the static prompt under the heading
\* 'Previous conversation:'; when it is absent or empty no call's system
\* text has that section.
C39_HistoryInEveryCall ==
    \A i \in 1..Len(calls) :
        IF HasHistory
        THEN /\ Len(calls[i].system) >= Len(SYSTEM_PROMPT) + 2
             /\ SubSeq(calls[i].system, 1, Len(SYSTEM_PROMPT) + 2) =
                    SYSTEM_PROMPT \o <<"\n\nPrevious conversation:\n">>
                    \o conversation_history.v
        ELSE \A k \in 1..Len(calls[i].system) :
                 calls[i].system[k] # "\n\nPrevious conversation:\n"

\* With a prior conversation: round 1, round 2 and the finalize call
C39_Witness ==
    /\ HasHistory
    /\ Len(calls) = 3
    /\ calls[1].kind = "round" /\ calls[2].kind = "round"
    /\ calls[3].kind = "finalize"

\* With a prior conversation: the fallback call after a tool failure
C39_WitnessFallback ==
    HasHistory /\ "fallback" \in KindsCalled

\* With a prior conversation: the call of the simple path
C39_WitnessSimple ==
    HasHistory /\ "simple" \in KindsCalled

\* With an empty prior conversation: a call of round 2
C39_WitnessEmpty ==
    /\ conversation_history = Some(<< >>)
    /\ Len(calls) = 2 /\ calls[2].kind = "round"

\* A round's LLM call has raised
RoundCallRaised ==
    \E k \in 1..Len(llm_log) : calls[k].kind = "round" /\ llm_log[k].raised

\* A tool call has raised
ToolCallRaised == \E i \in 1..Len(tool_log) : tool_log[i].raised

\* C40: the error log of the query's context has at most one entry, and it
\* has one exactly when a round's LLM call raised or a tool call raised; on
\* the paths without such a failure (early answer, finalize after two
\* rounds) it is empty at return.
C40_ErrorLog ==
    /\ Len(errors) <= 1
    /\ (errors # << >>) <=> (RoundCallRaised \/ ToolCallRaised)
    /\ (pc = "done" /\ ~RoundCallRaised /\ ~ToolCallRaised) => errors = << >>

\* A tool raised in round 2 and the fallback call raised too: one entry
C40_Witness ==
    /\ pc = "done"
    /\ Len(calls) = 3
    /\ calls[3].kind = "fallback" /\ llm_log[3].raised
    /\ tool_log[Len(tool_log)].raised
    /\ tool_log[Len(tool_log)].round = 2
    /\ errors = << <<"Round ", "2", ": ", "Tool execution failed: ",
                     "Database connection failed">> >>

\* Two rounds of tools and the finalize call: the log is empty at return
C40_WitnessFinalize ==
    /\ pc = "done"
    /\ Len(calls) = 3
    /\ calls[3].kind = "finalize"
    /\ errors = << >>

\* An answer in round 1: the log is empty at return
C40_WitnessEarly ==
    /\ pc = "done"
    /\ Len(calls) = 1 /\ calls[1].kind = "round" /\ ~llm_log[1].raised
    /\ tool_log = << >>
    /\ errors = << >>

=============================================================================
